---- MODULE Spec2Model ----
(***************************************************************************)
(* A model of the slides desktop backend (src-tauri): the MCP session      *)
(* registry and JSON-RPC dispatcher of mcp.rs, and the storage operations  *)
(* of db.rs its tools call.                                                *)
(***************************************************************************)
EXTENDS Integers, Sequences, FiniteSets, TLC

VARIABLES
    sessions,    \* mcp.rs Sessions: token -> channel of the stored Sender
    stream,      \* per token: position of the SSE stream generator
    queue,       \* per channel: messages sent and not yet received
    out,         \* per token: the events the stream has emitted, in order
    pings,       \* keep-alive events emitted so far (bounded)
    reqs,        \* the message_handler calls, in order of arrival
    app_state,   \* lib.rs AppState: the database and the uploads directory
    db_call,     \* the last direct call of a Database operation, numbered
    calls,       \* the REST and Database calls in flight, in order of arrival
    locks        \* the two RwLocks: who holds each and who waits, in order

vars == <<sessions, stream, queue, out, pings, reqs, app_state, db_call, calls,
          locks>>

-----------------------------------------------------------------------------
(* Bounds of the model *)

MaxReq == 2
MaxPings == 1
MaxDbCalls == 4
MaxCalls == 3
MaxRuleCreates == 2
MaxLen == 3
MaxPresentations == 1
MaxQueueReqs == 102

(* mpsc::channel::<String>(100) *)
ChannelCapacity == 100

Tokens == {"t1", "t2"}

(* Option::None of a string-valued option *)
None == "<none>"

(* Uuid::new_v4(): the n-th identifier generated by the process *)
UuidPool == <<"u1", "u2", "u3", "u4", "u5", "u6", "u7", "u8", "u9", "u10">>

-----------------------------------------------------------------------------
(* serde_json::Value, as far as the handlers look at it *)

JNull == [t |-> "null", s |-> "", n |-> 0]
Str(x) == [t |-> "str", s |-> x, n |-> 0]
Num(x) == [t |-> "num", s |-> "", n |-> x]

(* args.get(k) *)
Get(args, k) == IF k \in DOMAIN args THEN args[k] ELSE JNull

(* .and_then(|v| v.as_str()) *)
AsStr(v) == IF v.t = "str" THEN v.s ELSE None

(* args.get(k).and_then(|v| v.as_str()) *)
GetStr(args, k) == AsStr(Get(args, k))

(* .and_then(|v| v.as_i64()).unwrap_or(d) as i32; the numbers of the model
   are within i32, where the cast changes nothing *)
AsI32Or(v, d) == IF v.t = "num" THEN v.n ELSE d

(* serde_json::from_str::<Value>(s).is_ok(), on the strings of the model *)
ValidJsonStrings ==
    { "{}",
      "{\"imageCount\":{\"eq\":1}}",
      "{\"type\":\"wrap\",\"options\":{\"className\":\"layout-x\"}}" }

IsJson(s) == s \in ValidJsonStrings

(* Option<T> of the update and create DTOs (models.rs) *)
Some(x) == [some |-> TRUE, v |-> <<x>>]
Nothing == [some |-> FALSE, v |-> <<>>]
OptStr(s) == IF s = None THEN Nothing ELSE Some(s)
UnwrapOr(o, d) == IF o.some THEN o.v[1] ELSE d

(* A markdown text is kept as the sequence of the pieces it was built from;
   the empty string is the empty sequence. *)
Text(s) == <<s>>

-----------------------------------------------------------------------------
(* The outcome of a handler: Result<_, (i32, String)> together with the     *)
(* application state it leaves and the storage operations it invoked.       *)

Ok(text, arg, st, ops) ==
    [code |-> 0, text |-> text, arg |-> arg, app |-> st, ops |-> ops]

Err(code, text, arg, st, ops) ==
    [code |-> code, text |-> text, arg |-> arg, app |-> st, ops |-> ops]

MissingParam(k, st) == Err(-32602, "Missing required parameter", k, st, 0)

NewUuid(st) == UuidPool[st.issued + 1]

-----------------------------------------------------------------------------
(* db.rs: the stored state after Database::migrate on a fresh database *)

(* seed_layout_rules: (name, priority, conditions, transform), inserted with
   enabled = 1, is_default = 1 and no user_id *)
SeedRule(id, name, priority, conditions, transform) ==
    [id |-> id, name |-> name, priority |-> priority, enabled |-> TRUE,
     is_default |-> TRUE, user_id |-> None,
     conditions |-> conditions, transform |-> transform]

(* The seed with image-text behind text-image *)
SeedLayoutRulesImageTextLast ==
    { SeedRule("r1", "sections", 10,
        "{\"h3Count\":{\"gte\":2},\"imageCount\":{\"eq\":0},\"hasCards\":false}",
        "{\"type\":\"group-by-heading\",\"options\":{\"headingLevel\":3,\"containerClassName\":\"layout-sections\",\"columnClassName\":\"layout-section-col\"}}"),
      SeedRule("r2", "hero", 20,
        "{\"hasHeading\":true,\"imageCount\":{\"eq\":0},\"hasCards\":false,\"hasList\":false,\"hasCodeBlock\":false,\"hasBlockquote\":false,\"textParagraphCount\":{\"lte\":1}}",
        "{\"type\":\"wrap\",\"options\":{\"className\":\"layout-hero\"}}"),
      SeedRule("r3", "cards-image", 30,
        "{\"hasCards\":true,\"imageCount\":{\"gt\":0}}",
        "{\"type\":\"split-two\",\"options\":{\"className\":\"layout-cards-image\",\"leftSelector\":\"cards\",\"rightSelector\":\"media\",\"leftClassName\":\"layout-cards-side\",\"rightClassName\":\"layout-media-side\"}}"),
      SeedRule("r4", "image-grid", 40,
        "{\"hasHeading\":true,\"imageCount\":{\"gte\":2}}",
        "{\"type\":\"split-top-bottom\",\"options\":{\"className\":\"layout-image-grid\",\"bottomSelector\":\"media\"}}"),
      SeedRule("r5", "image-text", 55,
        "{\"hasHeading\":true,\"imageCount\":{\"eq\":1},\"mediaBeforeText\":true}",
        "{\"type\":\"split-two\",\"options\":{\"className\":\"layout-image-text\",\"leftSelector\":\"media\",\"rightSelector\":\"text\",\"leftClassName\":\"layout-media\",\"rightClassName\":\"layout-body\"}}"),
      SeedRule("r6", "text-image", 50,
        "{\"hasHeading\":true,\"imageCount\":{\"eq\":1}}",
        "{\"type\":\"split-two\",\"options\":{\"className\":\"layout-text-image\",\"leftSelector\":\"text\",\"rightSelector\":\"media\",\"leftClassName\":\"layout-body\",\"rightClassName\":\"layout-media\"}}") }

SeedLayoutRules ==
    { SeedRule("r1", "sections", 10,
        "{\"h3Count\":{\"gte\":2},\"imageCount\":{\"eq\":0},\"hasCards\":false}",
        "{\"type\":\"group-by-heading\",\"options\":{\"headingLevel\":3,\"containerClassName\":\"layout-sections\",\"columnClassName\":\"layout-section-col\"}}"),
      SeedRule("r2", "hero", 20,
        "{\"hasHeading\":true,\"imageCount\":{\"eq\":0},\"hasCards\":false,\"hasList\":false,\"hasCodeBlock\":false,\"hasBlockquote\":false,\"textParagraphCount\":{\"lte\":1}}",
        "{\"type\":\"wrap\",\"options\":{\"className\":\"layout-hero\"}}"),
      SeedRule("r3", "cards-image", 30,
        "{\"hasCards\":true,\"imageCount\":{\"gt\":0}}",
        "{\"type\":\"split-two\",\"options\":{\"className\":\"layout-cards-image\",\"leftSelector\":\"cards\",\"rightSelector\":\"media\",\"leftClassName\":\"layout-cards-side\",\"rightClassName\":\"layout-media-side\"}}"),
      SeedRule("r4", "image-grid", 40,
        "{\"hasHeading\":true,\"imageCount\":{\"gte\":2}}",
        "{\"type\":\"split-top-bottom\",\"options\":{\"className\":\"layout-image-grid\",\"bottomSelector\":\"media\"}}"),
      SeedRule("r5", "image-text", 45,
        "{\"hasHeading\":true,\"imageCount\":{\"eq\":1},\"mediaBeforeText\":true}",
        "{\"type\":\"split-two\",\"options\":{\"className\":\"layout-image-text\",\"leftSelector\":\"media\",\"rightSelector\":\"text\",\"leftClassName\":\"layout-media\",\"rightClassName\":\"layout-body\"}}"),
      SeedRule("r6", "text-image", 50,
        "{\"hasHeading\":true,\"imageCount\":{\"eq\":1}}",
        "{\"type\":\"split-two\",\"options\":{\"className\":\"layout-text-image\",\"leftSelector\":\"text\",\"rightSelector\":\"media\",\"leftClassName\":\"layout-body\",\"rightClassName\":\"layout-media\"}}") }

EmptyFn == [x \in {} |-> x]

InitAppState ==
    [presentations |-> EmptyFn,
     layout_rules  |-> SeedLayoutRules,
     media         |-> EmptyFn,
     files         |-> {},
     ai_configs    |-> {},
     issued        |-> 0]

(* What is stored: the tables and the uploads directory (not the state of
   the identifier generator). *)
Storage(st) ==
    [presentations |-> st.presentations, layout_rules |-> st.layout_rules,
     media |-> st.media, files |-> st.files, ai_configs |-> st.ai_configs]

-----------------------------------------------------------------------------
(* db.rs: the operations of Database.  Each returns AppResult as err ("" for
   Ok, else the AppError variant), the state it leaves, and the value. *)

DbOk(st, val) == [err |-> "", app |-> st, val |-> val]
DbErr(kind, st, val) == [err |-> kind, app |-> st, val |-> val]

(* AppError's Display prefix (error.rs) *)
ErrorText(kind) ==
    CASE kind = "NotFound"   -> "Not found"
      [] kind = "BadRequest" -> "Bad request"
      [] kind = "Database"   -> "Database error"
      [] OTHER               -> "Internal error"

get_presentation(st, id) ==
    IF id \in DOMAIN st.presentations
    THEN DbOk(st, id)
    ELSE DbErr("NotFound", st, id)

create_presentation(st, title, content, theme, now) ==
    LET id  == NewUuid(st)
        row == [title   |-> title,
                content |-> UnwrapOr(content, <<>>),
                theme   |-> UnwrapOr(theme, "default"),
                created_at |-> now, updated_at |-> now]
        st2 == [st EXCEPT !.issued = @ + 1,
                          !.presentations = (id :> row) @@ @]
    IN  get_presentation(st2, id)

(* update_presentation that defaults an omitted theme as create does *)
UpdatePresentationDefaultTheme(st, id, title, content, theme, now) ==
    LET existing == get_presentation(st, id) IN
    IF existing.err # "" THEN existing
    ELSE
      LET old == st.presentations[id]
          row == [title   |-> UnwrapOr(title, old.title),
                  content |-> UnwrapOr(content, old.content),
                  theme   |-> UnwrapOr(theme, "default"),
                  created_at |-> old.created_at, updated_at |-> now]
          st2 == [st EXCEPT !.presentations[id] = row]
      IN  get_presentation(st2, id)

update_presentation(st, id, title, content, theme, now) ==
    LET existing == get_presentation(st, id) IN
    IF existing.err # "" THEN existing
    ELSE
      LET old == st.presentations[id]
          row == [title   |-> UnwrapOr(title, old.title),
                  content |-> UnwrapOr(content, old.content),
                  theme   |-> UnwrapOr(theme, old.theme),
                  created_at |-> old.created_at, updated_at |-> now]
          st2 == [st EXCEPT !.presentations[id] = row]
      IN  get_presentation(st2, id)

(* delete_presentation without the test of rows_affected *)
DeletePresentationAnyRows(st, id) ==
    DbOk([st EXCEPT !.presentations = [k \in DOMAIN @ \ {id} |-> @[k]]], id)

delete_presentation(st, id) ==
    LET rows_affected == IF id \in DOMAIN st.presentations THEN 1 ELSE 0 IN
    IF rows_affected = 0
    THEN DbErr("NotFound", st, id)
    ELSE DbOk([st EXCEPT !.presentations =
                 [k \in DOMAIN @ \ {id} |-> @[k]]], id)

create_media(st, filename, original_name, mime_type) ==
    LET id  == NewUuid(st)
        row == [filename |-> filename, original_name |-> original_name,
                mime_type |-> mime_type]
    IN  DbOk([st EXCEPT !.issued = @ + 1, !.media = (id :> row) @@ @], id)

delete_media(st, id) ==
    IF id \in DOMAIN st.media
    THEN DbOk([st EXCEPT !.media = [k \in DOMAIN @ \ {id} |-> @[k]]], id)
    ELSE DbOk(st, None)

(* create_layout_rule on a table whose name column is not UNIQUE *)
CreateLayoutRuleNoUnique(st, name, priority, conditions, transform) ==
    LET id   == NewUuid(st)
        st1  == [st EXCEPT !.issued = @ + 1]
        rule == [id |-> id, name |-> name, priority |-> priority,
                 enabled |-> TRUE, is_default |-> FALSE, user_id |-> "local",
                 conditions |-> conditions, transform |-> transform]
    IN  DbOk([st1 EXCEPT !.layout_rules = @ \cup {rule}], id)

(* layout_rules.name is UNIQUE: the INSERT fails on a name in use *)
create_layout_rule(st, name, priority, conditions, transform) ==
    LET id   == NewUuid(st)
        st1  == [st EXCEPT !.issued = @ + 1]
        rule == [id |-> id, name |-> name, priority |-> priority,
                 enabled |-> TRUE, is_default |-> FALSE, user_id |-> "local",
                 conditions |-> conditions, transform |-> transform]
    IN  IF \E r \in st.layout_rules : r.name = name
        THEN DbErr("Database", st1, name)
        ELSE DbOk([st1 EXCEPT !.layout_rules = @ \cup {rule}], id)

(* delete_layout_rule without the is_default = 0 condition of its WHERE *)
DeleteLayoutRuleAnyRule(st, id) ==
    LET hit == { r \in st.layout_rules : r.id = id } IN
    IF hit = {}
    THEN DbErr("BadRequest", st, id)
    ELSE DbOk([st EXCEPT !.layout_rules = @ \ hit], id)

(* DELETE FROM layout_rules WHERE id = ? AND is_default = 0 *)
delete_layout_rule(st, id) ==
    LET hit == { r \in st.layout_rules : r.id = id /\ ~r.is_default } IN
    IF Cardinality(hit) = 0
    THEN DbErr("BadRequest", st, id)
    ELSE DbOk([st EXCEPT !.layout_rules = @ \ hit], id)

(* encryption.rs encrypt: the nonce followed by the plaintext sealed under
   the key and the nonce *)
encrypt(plaintext, nonce) == [nonce |-> nonce, sealed |-> plaintext]

(* SELECT ... FROM ai_provider_configs WHERE user_id = 'local' AND
   provider_name = ?, fetch_optional *)
get_ai_provider_config(st, provider_name) ==
    LET hit == { r \in st.ai_configs : r.provider_name = provider_name } IN
    IF hit = {} THEN Nothing ELSE Some(CHOOSE r \in hit : TRUE)

(* The Update branch that keeps the stored model and base URL when the
   request omits them, as update_ai_provider_config does *)
UpsertUpdateKeepingOmitted(st, existing, data, api_key_encrypted, now) ==
    LET model    == IF data.model = None THEN existing.model ELSE data.model
        base_url == IF data.base_url = None THEN existing.base_url ELSE data.base_url
        config   == [id |-> existing.id, provider_name |-> data.provider_name,
                     api_key_encrypted |-> api_key_encrypted,
                     model |-> model, base_url |-> base_url,
                     created_at |-> existing.created_at, updated_at |-> now]
    IN  DbOk([st EXCEPT !.ai_configs =
                { IF r.id = existing.id
                  THEN [r EXCEPT !.api_key_encrypted = api_key_encrypted,
                                 !.model = model, !.base_url = base_url,
                                 !.updated_at = now]
                  ELSE r : r \in @ }],
             config)

(* upsert_ai_provider_config, the Update branch: UPDATE ... WHERE id = ?,
   and the struct it returns *)
UpsertUpdate(st, existing, data, api_key_encrypted, now) ==
    LET config == [id |-> existing.id, provider_name |-> data.provider_name,
                   api_key_encrypted |-> api_key_encrypted,
                   model |-> data.model, base_url |-> data.base_url,
                   created_at |-> existing.created_at, updated_at |-> now]
    IN  DbOk([st EXCEPT !.ai_configs =
                { IF r.id = existing.id
                  THEN [r EXCEPT !.api_key_encrypted = api_key_encrypted,
                                 !.model = data.model,
                                 !.base_url = data.base_url,
                                 !.updated_at = now]
                  ELSE r : r \in @ }],
             config)

(* The Insert branch on a table without UNIQUE(user_id, provider_name) *)
UpsertInsertNoUnique(st, data, api_key_encrypted, now) ==
    LET config == [id |-> NewUuid(st), provider_name |-> data.provider_name,
                   api_key_encrypted |-> api_key_encrypted,
                   model |-> data.model, base_url |-> data.base_url,
                   created_at |-> now, updated_at |-> now]
    IN  DbOk([st EXCEPT !.issued = @ + 1, !.ai_configs = @ \cup {config}], config)

(* upsert_ai_provider_config, the Insert branch: a fresh id and the INSERT,
   which fails on UNIQUE(user_id, provider_name) *)
UpsertInsert(st, data, api_key_encrypted, now) ==
    LET config == [id |-> NewUuid(st), provider_name |-> data.provider_name,
                   api_key_encrypted |-> api_key_encrypted,
                   model |-> data.model, base_url |-> data.base_url,
                   created_at |-> now, updated_at |-> now]
        st1    == [st EXCEPT !.issued = @ + 1]
    IN  IF \E r \in st.ai_configs : r.provider_name = data.provider_name
        THEN DbErr("Database", st1, config)
        ELSE DbOk([st1 EXCEPT !.ai_configs = @ \cup {config}], config)

(* DELETE FROM ai_provider_configs WHERE id = ? AND user_id = 'local' *)
delete_ai_provider_config(st, id) ==
    DbOk([st EXCEPT !.ai_configs = { r \in @ : r.id # id }], id)

(* The response whose has-key flag is computed from the stored credential *)
ToResponseWithCredential(config) ==
    [id |-> config.id, provider_name |-> config.provider_name,
     model |-> config.model, base_url |-> config.base_url,
     has_key |-> config.api_key_encrypted.sealed # "not-needed"]

(* encryption.rs decrypt, on the blobs encrypt builds *)
decrypt(encrypted) == encrypted.sealed

(* models.rs: impl From<AiProviderConfig> for AiProviderConfigResponse *)
ToResponse(config) ==
    [id |-> config.id, provider_name |-> config.provider_name,
     model |-> config.model, base_url |-> config.base_url, has_key |-> TRUE]

(* The provider names of the model, in the order of ORDER BY provider_name *)
ProviderOrder == <<"anthropic", "openai">>

RECURSIVE ListConfigsFrom(_, _)
ListConfigsFrom(st, k) ==
    IF k > Len(ProviderOrder) THEN <<>>
    ELSE LET hit == { r \in st.ai_configs : r.provider_name = ProviderOrder[k] }
         IN  (IF hit = {} THEN <<>> ELSE <<CHOOSE r \in hit : TRUE>>)
             \o ListConfigsFrom(st, k + 1)

(* SELECT ... FROM ai_provider_configs WHERE user_id = 'local' ORDER BY
   provider_name *)
list_ai_provider_configs(st) == ListConfigsFrom(st, 1)

RECURSIVE Perms(_)
(* The orders in which the rows of S can be returned *)
Perms(S) ==
    IF S = {} THEN {<<>>}
    ELSE UNION { { <<x>> \o p : p \in Perms(S \ {x}) } : x \in S }

RECURSIVE OrderByPriority(_)
(* ORDER BY priority: ascending, the rows of one priority in an order the
   statement does not fix *)
OrderByPriority(S) ==
    IF S = {} THEN {<<>>}
    ELSE LET m == CHOOSE p \in { r.priority : r \in S } :
                      \A r \in S : p <= r.priority
             G == { r \in S : r.priority = m }
         IN  UNION { { g \o rest : rest \in OrderByPriority(S \ G) } : g \in Perms(G) }

Reverse(l) == [i \in 1..Len(l) |-> l[Len(l) + 1 - i]]

(* list_layout_rules with ORDER BY priority DESC *)
ListLayoutRulesDescending(st) ==
    { Reverse(l) : l \in OrderByPriority(st.layout_rules) }

(* SELECT ... FROM layout_rules ORDER BY priority: the listings the query
   can return *)
list_layout_rules(st) == OrderByPriority(st.layout_rules)

-----------------------------------------------------------------------------
(* mcp.rs: the tool handlers.  env is what the file system and the network
   answer during the call. *)

(* A storage failure mapped to the invalid-params code *)
FromDbAsInvalidParams(r, text, ops) ==
    IF r.err # ""
    THEN Err(-32602, ErrorText(r.err), r.val, r.app, ops)
    ELSE Ok(text, r.val, r.app, ops)

(* Result of a storage call, mapped with .map_err(|e| (-32000, e.to_string())) *)
FromDb(r, text, ops) ==
    IF r.err # ""
    THEN Err(-32000, ErrorText(r.err), r.val, r.app, ops)
    ELSE Ok(text, r.val, r.app, ops)

tool_list_presentations(st) == Ok("presentations", "", st, 1)

tool_get_presentation(st, args) ==
    LET id == GetStr(args, "id") IN
    IF id = None THEN MissingParam("id", st)
    ELSE FromDb(get_presentation(st, id), "presentation", 1)

tool_create_presentation(st, args, env) ==
    LET title   == GetStr(args, "title")
        content == GetStr(args, "content")
        theme   == GetStr(args, "theme")
    IN  IF title = None THEN MissingParam("title", st)
        ELSE FromDb(create_presentation(st, title,
                        IF content = None THEN Nothing ELSE Some(Text(content)),
                        OptStr(theme), env.now),
                    "presentation", 1)

tool_update_presentation(st, args, env) ==
    LET id      == GetStr(args, "id")
        title   == GetStr(args, "title")
        content == GetStr(args, "content")
        theme   == GetStr(args, "theme")
    IN  IF id = None THEN MissingParam("id", st)
        ELSE FromDb(update_presentation(st, id, OptStr(title),
                        IF content = None THEN Nothing ELSE Some(Text(content)),
                        OptStr(theme), env.now),
                    "presentation", 1)

tool_delete_presentation(st, args) ==
    LET id == GetStr(args, "id") IN
    IF id = None THEN MissingParam("id", st)
    ELSE FromDb(delete_presentation(st, id), "deleted", 1)

tool_list_themes(st) == Ok("themes", "", st, 1)

(* format!("{}\n\n---\n\n{}", presentation.content.trim_end(), slides) *)
AppendSlides(content, slides) == content \o <<"---", slides>>

tool_add_slides(st, args, env) ==
    LET id     == GetStr(args, "id")
        slides == GetStr(args, "slides")
    IN  IF id = None THEN MissingParam("id", st)
        ELSE IF slides = None THEN MissingParam("slides", st)
        ELSE LET got == get_presentation(st, id) IN
             IF got.err # "" THEN FromDb(got, "presentation", 1)
             ELSE FromDb(update_presentation(st, id, Nothing,
                            Some(AppendSlides(st.presentations[id].content, slides)),
                            Nothing, env.now),
                         "presentation", 2)

tool_list_media(st) == Ok("media", "", st, 1)

(* source.starts_with("http://") || source.starts_with("https://") *)
IsUrl(source) == source \in {"https://h/a.png", "http://h/a.png"}

(* Path::file_name / the last path segment of the URL *)
LastSegment(source) ==
    CASE source \in {"/pics/a.png", "https://h/a.png", "http://h/a.png"} -> "a.png"
      [] source = "/docs/a.txt" -> "a.txt"
      [] OTHER -> "upload"

(* Path::extension *)
Extension(name) ==
    CASE name = "a.png" -> "png"
      [] name = "a.txt" -> "txt"
      [] name = "b.gif" -> "gif"
      [] OTHER -> None

get_mime_type(filename) ==
    LET ext == Extension(filename) IN
    CASE ext = "png" -> "image/png"
      [] ext \in {"jpg", "jpeg"} -> "image/jpeg"
      [] ext = "gif" -> "image/gif"
      [] ext = "mp4" -> "video/mp4"
      [] ext = "mp3" -> "audio/mpeg"
      [] OTHER -> "application/octet-stream"

(* starts_with("image/") || starts_with("video/") || starts_with("audio/") *)
IsMediaMime(mime) ==
    mime \in {"image/png", "image/jpeg", "image/gif", "video/mp4", "audio/mpeg"}

tool_upload_media(st, args, env) ==
    LET source == GetStr(args, "source")
        custom == GetStr(args, "filename")
        name   == IF custom # None THEN custom ELSE LastSegment(source)
        mime   == IF IsUrl(source) THEN env.content_type ELSE get_mime_type(name)
        ext    == IF Extension(name) = None THEN "bin" ELSE Extension(name)
        unique == <<NewUuid(st), ext>>
        st1    == [st EXCEPT !.issued = @ + 1]
        st2    == [st1 EXCEPT !.files = @ \cup {unique}]
    IN  IF source = None THEN MissingParam("source", st)
        ELSE IF ~env.read_ok
        THEN Err(-32000, IF IsUrl(source) THEN "Failed to download"
                                          ELSE "Failed to read file", source, st, 0)
        ELSE IF ~IsMediaMime(mime)
        THEN Err(-32602, "Only image, video, and audio files are allowed", "", st, 0)
        ELSE IF ~env.write_ok
        THEN Err(-32000, "Failed to write file", "", st1, 0)
        ELSE FromDb(create_media(st2, unique, name, mime), "media", 1)

tool_delete_media(st, args, env) ==
    LET id == GetStr(args, "id") IN
    IF id = None THEN MissingParam("id", st)
    ELSE LET r == delete_media(st, id) IN
         IF r.val # None
         THEN LET filename == st.media[id].filename
                  removed  == filename \in st.files /\ env.write_ok
              IN  Ok("deleted", id,
                     [r.app EXCEPT !.files = IF removed THEN @ \ {filename} ELSE @],
                     1)
         ELSE Err(-32000, "Media not found", "", r.app, 1)

tool_list_layout_rules(st) == Ok("layout_rules", "", st, 1)

tool_create_layout_rule(st, args) ==
    LET name         == GetStr(args, "name")
        display_name == GetStr(args, "displayName")
        priority     == AsI32Or(Get(args, "priority"), 100)
        conditions   == GetStr(args, "conditions")
        transform    == GetStr(args, "transform")
        css_content  == GetStr(args, "cssContent")
    IN  IF name = None THEN MissingParam("name", st)
        ELSE IF display_name = None THEN MissingParam("displayName", st)
        ELSE IF conditions = None THEN MissingParam("conditions", st)
        ELSE IF transform = None THEN MissingParam("transform", st)
        ELSE IF css_content = None THEN MissingParam("cssContent", st)
        ELSE IF ~IsJson(conditions)
        THEN Err(-32602, "Invalid conditions JSON", "", st, 0)
        ELSE IF ~IsJson(transform)
        THEN Err(-32602, "Invalid transform JSON", "", st, 0)
        ELSE FromDb(create_layout_rule(st, name, priority, conditions, transform),
                    "layout_rule", 1)

tool_delete_layout_rule(st, args) ==
    LET id == GetStr(args, "id") IN
    IF id = None THEN MissingParam("id", st)
    ELSE FromDb(delete_layout_rule(st, id), "deleted", 1)

(* handle_tools_list: the catalog, as tool name -> the "required" list of its
   inputSchema (empty where the schema has none) *)
ToolCatalog ==
    [list_presentations  |-> {},
     get_presentation    |-> {"id"},
     create_presentation |-> {"title", "content"},
     update_presentation |-> {"id"},
     delete_presentation |-> {"id"},
     list_themes         |-> {},
     add_slides          |-> {"id", "slides"},
     list_media          |-> {},
     upload_media        |-> {"source"},
     delete_media        |-> {"id"},
     list_layout_rules   |-> {},
     create_layout_rule  |-> {"name", "displayName", "conditions", "transform",
                              "cssContent"},
     delete_layout_rule  |-> {"id"}]

(* UnknownTool with the code of "Method not found" *)
UnknownToolAsMethodNotFound(name, st) ==
    Err(-32601, "Unknown tool", name, st, 0)

UnknownTool(name, st) == Err(-32602, "Unknown tool", name, st, 0)

(* handle_tools_call: params is {name, arguments} *)
handle_tools_call(st, params, env) ==
    LET name      == AsStr(params.name)
        arguments == params.arguments
    IN  IF name = None THEN Err(-32602, "Missing tool name", "", st, 0)
        ELSE CASE name = "list_presentations"  -> tool_list_presentations(st)
               [] name = "get_presentation"    -> tool_get_presentation(st, arguments)
               [] name = "create_presentation" -> tool_create_presentation(st, arguments, env)
               [] name = "update_presentation" -> tool_update_presentation(st, arguments, env)
               [] name = "delete_presentation" -> tool_delete_presentation(st, arguments)
               [] name = "list_themes"         -> tool_list_themes(st)
               [] name = "add_slides"          -> tool_add_slides(st, arguments, env)
               [] name = "list_media"          -> tool_list_media(st)
               [] name = "upload_media"        -> tool_upload_media(st, arguments, env)
               [] name = "delete_media"        -> tool_delete_media(st, arguments, env)
               [] name = "list_layout_rules"   -> tool_list_layout_rules(st)
               [] name = "create_layout_rule"  -> tool_create_layout_rule(st, arguments)
               [] name = "delete_layout_rule"  -> tool_delete_layout_rule(st, arguments)
               [] OTHER                        -> UnknownTool(name, st)

handle_initialize(st) == Ok("initialize", "", st, 0)

handle_tools_list(st) == Ok("tools", "", st, 0)

-----------------------------------------------------------------------------
(* mcp.rs: JsonRpcRequest, JsonRpcResponse and process_request *)

NoParams == [name |-> JNull, arguments |-> EmptyFn]

Request(id, method, params) == [id |-> id, method |-> method, params |-> params]

(* JsonRpcResponse::success / JsonRpcResponse::error; code 0: no error *)
Response(id, result) ==
    [id |-> id, is_error |-> result.code # 0, code |-> result.code,
     text |-> result.text, arg |-> result.arg]

NoResponse == [id |-> None, is_error |-> FALSE, code |-> 0, text |-> "", arg |-> ""]

(* serde_json::to_string(&response): id, result and error are each skipped
   when None (skip_serializing_if) *)
Serialize(resp) ==
    [jsonrpc |-> "2.0"]
    @@ (IF resp.id # None THEN [id |-> resp.id] ELSE EmptyFn)
    @@ (IF resp.is_error
        THEN [error |-> [code |-> resp.code, text |-> resp.text, arg |-> resp.arg]]
        ELSE [result |-> [text |-> resp.text, arg |-> resp.arg]])

(* MethodNotFound with the code of "Invalid params" *)
MethodNotFoundAsInvalidParams(method, st) ==
    Err(-32602, "Method not found", method, st, 0)

MethodNotFound(method, st) == Err(-32601, "Method not found", method, st, 0)

(* IsNotification without the test of the id *)
IsNotificationAnyId(request) == request.method = "notifications/initialized"

IsNotification(request) ==
    request.id = None /\ request.method = "notifications/initialized"

process_request(st, request, env) ==
    IF IsNotification(request)
    THEN [some |-> FALSE, resp |-> NoResponse, app |-> st, ops |-> 0]
    ELSE LET result ==
               CASE request.method = "initialize" -> handle_initialize(st)
                 [] request.method = "tools/list" -> handle_tools_list(st)
                 [] request.method = "tools/call" ->
                        handle_tools_call(st, request.params, env)
                 [] OTHER -> MethodNotFound(request.method, st)
         IN  [some |-> TRUE, resp |-> Response(request.id, result),
              app |-> result.app, ops |-> result.ops]

-----------------------------------------------------------------------------
(* The SSE stream of one session (sse_handler) *)

Event(kind, t, msg) == [event |-> kind, token |-> t, msg |-> msg]

(* RegistryInsert that builds a new map holding the one entry *)
RegistryInsertAlone(m, t, ch) == [k \in {t} |-> ch]

(* sessions.insert(session_id, tx) *)
RegistryInsert(m, t, ch) ==
    [k \in DOMAIN m \cup {t} |-> IF k = t THEN ch ELSE m[k]]

(* sessions.remove(&session_id) *)
RegistryRemove(m, t) == [k \in DOMAIN m \ {t} |-> m[k]]

(* RegistryGet that hands out the Sender of another session when there is
   one *)
RegistryGetOther(m, t) ==
    IF t \in DOMAIN m
    THEN m[CHOOSE k \in DOMAIN m : k # t \/ DOMAIN m = {t}]
    ELSE None

(* RegistryGet that falls back to some registered Sender *)
RegistryGetOrAny(m, t) ==
    IF t \in DOMAIN m THEN m[t]
    ELSE IF DOMAIN m = {} THEN None
    ELSE m[CHOOSE k \in DOMAIN m : TRUE]

(* sessions.get(&session_id).cloned() *)
RegistryGet(m, t) == IF t \in DOMAIN m THEN m[t] ELSE None

(* The Receiver of channel ch lives in the stream generator of session ch *)
ReceiverDropped(ch) == stream[ch] \in {"dropped", "ended"}

InFlight(i) == reqs[i].pc \in {"process", "send"}

(* Every Sender of channel ch is gone: the one stored in the registry and
   the clones held by message_handler calls in flight *)
AllSendersDropped(ch) ==
    /\ \A k \in DOMAIN sessions : sessions[k] # ch
    /\ \A i \in DOMAIN reqs : ~(InFlight(i) /\ reqs[i].sender = ch)

(* sse_handler: a fresh token, the channel, the registration; the stream is
   returned and not yet polled *)
SseOpen(t) ==
    /\ stream[t] = "none"
    /\ sessions' = RegistryInsert(sessions, t, t)
    /\ stream' = [stream EXCEPT ![t] = "ready"]
    /\ queue' = [queue EXCEPT ![t] = <<>>]
    /\ UNCHANGED <<out, pings, reqs, app_state, db_call, calls, locks>>

(* One poll of the stream generator that makes progress: the endpoint event
   first, then one event per received message; when recv() returns None the
   loop ends and the session is removed from the registry. *)
StreamPoll(t) ==
    IF stream[t] = "ready"
    THEN /\ out' = [out EXCEPT ![t] = Append(@, Event("endpoint", t, EmptyFn))]
         /\ stream' = [stream EXCEPT ![t] = "open"]
         /\ UNCHANGED <<sessions, queue, pings, reqs, app_state, db_call, calls, locks>>
    ELSE /\ stream[t] = "open"
         /\ IF queue[t] # <<>>
            THEN /\ out' = [out EXCEPT ![t] = Append(@, Event("message", t, Head(queue[t])))]
                 /\ queue' = [queue EXCEPT ![t] = Tail(@)]
                 /\ UNCHANGED <<sessions, stream, pings, reqs, app_state, db_call, calls, locks>>
            ELSE /\ AllSendersDropped(t)
                 /\ sessions' = RegistryRemove(sessions, t)
                 /\ stream' = [stream EXCEPT ![t] = "ended"]
                 /\ UNCHANGED <<queue, out, pings, reqs, app_state, db_call, calls, locks>>

(* Sse::keep_alive: a keep-alive event when the stream is pending *)
KeepAlive(t) ==
    /\ stream[t] = "open"
    /\ queue[t] = <<>>
    /\ pings < MaxPings
    /\ pings' = pings + 1
    /\ out' = [out EXCEPT ![t] = Append(@, Event("ping", t, EmptyFn))]
    /\ UNCHANGED <<sessions, stream, queue, reqs, app_state, db_call, calls, locks>>

(* The consumer disconnects: the response body, and with it the stream
   generator and its Receiver, is dropped where it is suspended. *)
Disconnect(t) ==
    /\ stream[t] \in {"ready", "open"}
    /\ stream' = [stream EXCEPT ![t] = "dropped"]
    /\ queue' = [queue EXCEPT ![t] = <<>>]
    /\ UNCHANGED <<sessions, out, pings, reqs, app_state, db_call, calls, locks>>

-----------------------------------------------------------------------------
(* message_handler: one call per submitted request *)

(* What the file system and the network may answer during a tool call *)
Envs == [read_ok : BOOLEAN, write_ok : BOOLEAN,
         content_type : {"image/png", "text/html"}, now : {1}]

DefaultEnv ==
    [read_ok |-> TRUE, write_ok |-> TRUE, content_type |-> "image/png", now |-> 1]

EnvsFor(request) ==
    IF request.method # "tools/call" THEN {DefaultEnv}
    ELSE CASE AsStr(request.params.name) = "upload_media" -> Envs
           [] AsStr(request.params.name) = "delete_media" ->
                  { e \in Envs : e.read_ok /\ e.content_type = "image/png" }
           [] OTHER -> {DefaultEnv}

(* The call from its entry to the registry lookup: NOT_FOUND when the token
   has no entry, else the cloned Sender is kept for the reply. *)
SubmitCall(t, request) ==
    /\ LET sender == RegistryGet(sessions, t) IN
       reqs' = Append(reqs,
          [token   |-> t,
           request |-> request,
           sender  |-> sender,
           pc      |-> IF sender = None THEN "done" ELSE "process",
           status  |-> IF sender = None THEN "NOT_FOUND" ELSE "",
           some    |-> FALSE,
           resp    |-> NoResponse,
           ops     |-> 0,
           changed |-> FALSE,
           sent    |-> 0,
           open_at_lookup |-> stream[t] \in {"ready", "open"}])
    /\ UNCHANGED <<sessions, stream, queue, out, pings, app_state, db_call, calls, locks>>

Submit(t, request) ==
    /\ Len(reqs) < MaxReq
    /\ SubmitCall(t, request)

(* process_request(&state, request).await; a request without a response
   (a notification) returns ACCEPTED at once. *)
Process(i) ==
    /\ reqs[i].pc = "process"
    /\ \E env \in EnvsFor(reqs[i].request) :
         LET r == process_request(app_state, reqs[i].request, env) IN
         /\ app_state' = r.app
         /\ reqs' = [reqs EXCEPT ![i] =
               [@ EXCEPT !.some = r.some,
                         !.resp = r.resp,
                         !.ops = r.ops,
                         !.changed = Storage(r.app) # Storage(app_state),
                         !.pc = IF r.some THEN "send" ELSE "done",
                         !.status = IF r.some THEN "" ELSE "ACCEPTED"]]
    /\ UNCHANGED <<sessions, stream, queue, out, pings, db_call, calls, locks>>

(* Send that gives up when the channel has no room, as try_send does *)
SendDroppingWhenFull(i) ==
    /\ reqs[i].pc = "send"
    /\ LET ch == reqs[i].sender IN
       IF ReceiverDropped(ch)
       THEN /\ reqs' = [reqs EXCEPT ![i] =
                  [@ EXCEPT !.pc = "done", !.status = "INTERNAL_SERVER_ERROR"]]
            /\ UNCHANGED queue
       ELSE IF Len(queue[ch]) >= ChannelCapacity
       THEN /\ reqs' = [reqs EXCEPT ![i] =
                  [@ EXCEPT !.pc = "done", !.status = "INTERNAL_SERVER_ERROR"]]
            /\ UNCHANGED queue
       ELSE /\ queue' = [queue EXCEPT ![ch] = Append(@, Serialize(reqs[i].resp))]
            /\ reqs' = [reqs EXCEPT ![i] =
                  [@ EXCEPT !.pc = "done", !.status = "ACCEPTED", !.sent = @ + 1]]
    /\ UNCHANGED <<sessions, stream, out, pings, app_state, db_call, calls, locks>>

(* Send that ignores the result of sender.send *)
SendIgnoringError(i) ==
    /\ reqs[i].pc = "send"
    /\ LET ch == reqs[i].sender IN
       IF stream[ch] \in {"dropped", "ended"}
       THEN UNCHANGED queue
       ELSE /\ Len(queue[ch]) < ChannelCapacity
            /\ queue' = [queue EXCEPT ![ch] = Append(@, Serialize(reqs[i].resp))]
    /\ reqs' = [reqs EXCEPT ![i] =
          [@ EXCEPT !.pc = "done", !.status = "ACCEPTED",
                    !.sent = IF stream[reqs[i].sender] \in {"dropped", "ended"}
                             THEN @ ELSE @ + 1]]
    /\ UNCHANGED <<sessions, stream, out, pings, app_state, db_call, calls, locks>>

(* sender.send(response_json).await: an error when the Receiver is gone,
   else the message is queued once the channel has room. *)
Send(i) ==
    /\ reqs[i].pc = "send"
    /\ LET ch == reqs[i].sender IN
       IF ReceiverDropped(ch)
       THEN /\ reqs' = [reqs EXCEPT ![i] =
                  [@ EXCEPT !.pc = "done", !.status = "INTERNAL_SERVER_ERROR"]]
            /\ UNCHANGED queue
       ELSE /\ Len(queue[ch]) < ChannelCapacity
            /\ queue' = [queue EXCEPT ![ch] = Append(@, Serialize(reqs[i].resp))]
            /\ reqs' = [reqs EXCEPT ![i] =
                  [@ EXCEPT !.pc = "done", !.status = "ACCEPTED", !.sent = @ + 1]]
    /\ UNCHANGED <<sessions, stream, out, pings, app_state, db_call, calls, locks>>

-----------------------------------------------------------------------------
(* The requests submitted *)

RpcIds == {None, "7"}

Call(id, tool, args) ==
    Request(id, "tools/call", [name |-> Str(tool), arguments |-> args])

Drop(f, k) == [x \in DOMAIN f \ {k} |-> f[x]]

(* The requests of the session specification: each method with and without
   an id, and one tool call that writes *)
SessionPayloads ==
    { Request("7", "initialize", NoParams),
      Request(None, "initialize", NoParams),
      Request(None, "notifications/initialized", NoParams),
      Request("7", "notifications/initialized", NoParams),
      Request(None, "notifications/cancelled", NoParams),
      Request("7", "resources/list", NoParams),
      Call("7", "create_presentation", [title |-> Str("T"), content |-> Str("c")]) }

(* Complete argument objects per tool *)
ToolArgs ==
    [list_presentations  |-> {EmptyFn},
     get_presentation    |-> {[id |-> Str("u1")], [id |-> Str("zz")]},
     create_presentation |-> {[title |-> Str("T"), content |-> Str("c")],
                              [title |-> Str("T"), content |-> Str("c"),
                               theme |-> Str("dark")]},
     update_presentation |-> {[id |-> Str("u1"), title |-> Str("T2")],
                              [id |-> Str("u1"), content |-> Str("c2"),
                               theme |-> Str("dark")],
                              [id |-> Str("zz"), title |-> Str("T2")]},
     delete_presentation |-> {[id |-> Str("u1")], [id |-> Str("zz")]},
     list_themes         |-> {EmptyFn},
     add_slides          |-> {[id |-> Str("u1"), slides |-> Str("s")],
                              [id |-> Str("zz"), slides |-> Str("s")]},
     list_media          |-> {EmptyFn},
     upload_media        |-> {[source |-> Str("/pics/a.png")],
                              [source |-> Str("/docs/a.txt")],
                              [source |-> Str("https://h/a.png")],
                              [source |-> Str("/docs/a.txt"),
                               filename |-> Str("b.gif")]},
     delete_media        |-> {[id |-> Str("u2")], [id |-> Str("zz")]},
     list_layout_rules   |-> {EmptyFn},
     create_layout_rule  |-> {[name |-> Str("mine"), displayName |-> Str("Mine"),
                               conditions |-> Str("{\"imageCount\":{\"eq\":1}}"),
                               transform |-> Str("{\"type\":\"wrap\",\"options\":{\"className\":\"layout-x\"}}"),
                               cssContent |-> Str(".x {}")],
                              [name |-> Str("hero"), displayName |-> Str("Hero 2"),
                               priority |-> Num(5),
                               conditions |-> Str("{}"),
                               transform |-> Str("{\"type\":\"wrap\",\"options\":{\"className\":\"layout-x\"}}"),
                               cssContent |-> Str(".x {}")],
                              [name |-> Str("mine"), displayName |-> Str("Mine"),
                               conditions |-> Str("{bad"),
                               transform |-> Str("{}"),
                               cssContent |-> Str(".x {}")]},
     delete_layout_rule  |-> {[id |-> Str("r2")], [id |-> Str("u1")],
                              [id |-> Str("zz")]}]

ToolNames == DOMAIN ToolArgs

(* Every complete argument object, each with one of its arguments left out,
   and one with an argument that is not a string *)
CallsOf(tool) ==
    { Call("7", tool, a) : a \in ToolArgs[tool] }
    \cup UNION { { Call("7", tool, Drop(a, k)) : k \in DOMAIN a } :
                   a \in ToolArgs[tool] }

ToolPayloads ==
    UNION { CallsOf(tool) : tool \in ToolNames }
    \cup { Call("7", "get_presentation", [id |-> Num(1)]),
           Call("7", "no_such_tool", EmptyFn),
           Call(None, "no_such_tool", EmptyFn),
           Request("7", "tools/call", NoParams),
           Request("7", "tools/list", NoParams) }

-----------------------------------------------------------------------------
(* tokio::sync::RwLock: the guards held and the requests waiting, first come
   first served *)
FreeLock == [held |-> {}, waiting |-> <<>>]

(* registry: McpState.sessions; state: SharedState *)
InitLocks == [registry |-> FreeLock, state |-> FreeLock]

-----------------------------------------------------------------------------
Init ==
    /\ sessions = EmptyFn
    /\ stream = [t \in Tokens |-> "none"]
    /\ queue = [t \in Tokens |-> <<>>]
    /\ out = [t \in Tokens |-> <<>>]
    /\ pings = 0
    /\ reqs = <<>>
    /\ app_state = InitAppState
    /\ db_call = [n |-> 0, op |-> "", arg |-> "", err |-> "", val |-> <<>>]
    /\ calls = <<>>
    /\ locks = InitLocks

Next ==
    \/ \E t \in Tokens : SseOpen(t)
    \/ \E t \in Tokens : StreamPoll(t)
    \/ \E t \in Tokens : KeepAlive(t)
    \/ \E t \in Tokens : Disconnect(t)
    \/ \E t \in Tokens, request \in SessionPayloads : Submit(t, request)
    \/ \E i \in DOMAIN reqs : Process(i)
    \/ \E i \in DOMAIN reqs : Send(i)

Spec == Init /\ [][Next]_vars

(* The runtime polls every task that can make progress: a stream whose
   connection is alive, and every message_handler call. *)
Fairness ==
    /\ \A t \in Tokens : WF_vars(StreamPoll(t))
    /\ WF_vars(\E i \in DOMAIN reqs : Process(i))
    /\ WF_vars(\E i \in DOMAIN reqs : Send(i))

FairSpec == Spec /\ Fairness

(* The tool calls, over one session, by a client that awaits the status of
   a call before it submits the next *)
ToolsToken == "t1"

SubmitTool(request) ==
    /\ \A i \in DOMAIN reqs : reqs[i].pc = "done"
    /\ Submit(ToolsToken, request)

NextTools ==
    \/ SseOpen(ToolsToken)
    \/ StreamPoll(ToolsToken)
    \/ Disconnect(ToolsToken)
    \/ \E request \in ToolPayloads : SubmitTool(request)
    \/ \E i \in DOMAIN reqs : Process(i)
    \/ \E i \in DOMAIN reqs : Send(i)

SpecTools == Init /\ [][NextTools]_vars

-----------------------------------------------------------------------------
(* The layout rule operations of Database, called one after the other *)

RuleNames == {"mine", "other", "hero"}
RulePriorities == {5, 100}
RuleIds == {"r1", "r2", "r6", "u1", "u2", "zz"}

CreateLayoutRule(name, priority) ==
    /\ db_call.n < MaxDbCalls
    /\ LET r == create_layout_rule(app_state, name, priority, "{}", "{}") IN
       /\ app_state' = r.app
       /\ db_call' = [n |-> db_call.n + 1, op |-> "create_layout_rule",
                      arg |-> name, err |-> r.err, val |-> <<>>]
    /\ UNCHANGED <<sessions, stream, queue, out, pings, reqs, calls, locks>>

DeleteLayoutRule(id) ==
    /\ db_call.n < MaxDbCalls
    /\ LET r == delete_layout_rule(app_state, id) IN
       /\ app_state' = r.app
       /\ db_call' = [n |-> db_call.n + 1, op |-> "delete_layout_rule",
                      arg |-> id, err |-> r.err, val |-> <<>>]
    /\ UNCHANGED <<sessions, stream, queue, out, pings, reqs, calls, locks>>

(* A create_layout_rule call, from its entry to the await of its INSERT;
   several may be in flight at once *)
CreateRuleCall(name, priority) ==
    /\ Len(calls) < MaxCalls
    /\ calls' = Append(calls, [op |-> "create_layout_rule", pc |-> "insert",
                               name |-> name, priority |-> priority, err |-> ""])
    /\ UNCHANGED <<sessions, stream, queue, out, pings, reqs, app_state, db_call, locks>>

(* The INSERT of call i and its return *)
CreateRuleInsert(i) ==
    /\ calls[i].pc = "insert"
    /\ LET r == create_layout_rule(app_state, calls[i].name, calls[i].priority,
                                   "{}", "{}") IN
       /\ app_state' = r.app
       /\ calls' = [calls EXCEPT ![i] = [@ EXCEPT !.pc = "done", !.err = r.err]]
    /\ UNCHANGED <<sessions, stream, queue, out, pings, reqs, db_call, locks>>

ListLayoutRules ==
    /\ db_call.n < MaxDbCalls
    /\ \E listing \in list_layout_rules(app_state) :
          db_call' = [n |-> db_call.n + 1, op |-> "list_layout_rules",
                      arg |-> "", err |-> "", val |-> listing]
    /\ UNCHANGED <<sessions, stream, queue, out, pings, reqs, app_state, calls, locks>>

NextRules ==
    \/ \E name \in RuleNames, priority \in RulePriorities :
          CreateLayoutRule(name, priority)
    \/ \E id \in RuleIds : DeleteLayoutRule(id)
    \/ ListLayoutRules

SpecRules == Init /\ [][NextRules]_vars

(* The layout rule operations of Database, with the creates in flight
   together: each call is one INSERT, and the database runs the statements
   one at a time *)
NextRulesConcurrent ==
    \/ \E name \in RuleNames : CreateRuleCall(name, 100)
    \/ \E i \in DOMAIN calls : CreateRuleInsert(i)
    \/ \E id \in RuleIds : DeleteLayoutRule(id)

SpecRulesConcurrent == Init /\ [][NextRulesConcurrent]_vars

-----------------------------------------------------------------------------
(* The presentation operations of Database, called one after the other *)

Times == {1, 2}
PresentationIds == {"u1", "u2", "zz"}
CreateData ==
    [title : {"T1"}, content : {Nothing, Some(Text("c1"))}, theme : {Nothing}]
UpdateData ==
    [title : {Nothing, Some("T2")}, content : {Nothing, Some(Text("c2"))},
     theme : {Nothing, Some("dark")}]

DbCall(op, arg, r, val) ==
    /\ db_call.n < MaxDbCalls
    /\ app_state' = r.app
    /\ db_call' = [n |-> db_call.n + 1, op |-> op, arg |-> arg, err |-> r.err,
                   val |-> val]
    /\ UNCHANGED <<sessions, stream, queue, out, pings, reqs, calls, locks>>

CreatePresentation(data, now) ==
    DbCall("create_presentation", "",
           create_presentation(app_state, data.title, data.content, data.theme, now),
           [data |-> data, now |-> now])

UpdatePresentation(id, data, now) ==
    DbCall("update_presentation", id,
           update_presentation(app_state, id, data.title, data.content,
                               data.theme, now),
           [data |-> data, now |-> now])

DeletePresentation(id) ==
    DbCall("delete_presentation", id, delete_presentation(app_state, id), <<>>)

GetPresentation(id) ==
    DbCall("get_presentation", id, get_presentation(app_state, id), <<>>)

NextPresentations ==
    \/ \E data \in CreateData, now \in Times : CreatePresentation(data, now)
    \/ \E id \in PresentationIds, data \in UpdateData, now \in Times :
          UpdatePresentation(id, data, now)
    \/ \E id \in PresentationIds : DeletePresentation(id)
    \/ \E id \in PresentationIds : GetPresentation(id)

SpecPresentations == Init /\ [][NextPresentations]_vars

-----------------------------------------------------------------------------
(* api.rs: the AI provider config handlers; the calls run concurrently and
   the database runs their statements one at a time *)

AiData ==
    { [provider_name |-> "openai", api_key |-> "k1", model |-> "m1",
       base_url |-> None],
      [provider_name |-> "openai", api_key |-> "k2", model |-> None,
       base_url |-> "b1"],
      [provider_name |-> "anthropic", api_key |-> None, model |-> None,
       base_url |-> "b1"],
      [provider_name |-> "openai", api_key |-> None, model |-> "m1",
       base_url |-> None] }

AiIds == {"u1", "u2", "zz"}

(* create_ai_config from its entry to the lookup of upsert_ai_provider_config:
   the validation, the encryption under a fresh nonce, Utc::now() and the
   SELECT by provider name *)
CreateAiConfig(data, now) ==
    /\ Len(calls) < MaxCalls
    /\ LET invalid == data.api_key = None /\ data.base_url = None
           key     == IF data.api_key = None THEN "not-needed" ELSE data.api_key
       IN  calls' = Append(calls,
              [op |-> "create_ai_config",
               pc |-> IF invalid THEN "done" ELSE "write",
               data |-> data,
               api_key_encrypted |-> encrypt(key, Len(calls) + 1),
               now |-> now,
               existing |-> IF invalid THEN Nothing
                            ELSE get_ai_provider_config(app_state, data.provider_name),
               err |-> IF invalid THEN "BadRequest" ELSE "",
               config |-> Nothing,
               response |-> Nothing])
    /\ UNCHANGED <<sessions, stream, queue, out, pings, reqs, app_state, db_call, locks>>

(* The UPDATE or the INSERT of call i and its response *)
UpsertWrite(i) ==
    /\ calls[i].pc = "write"
    /\ LET c == calls[i]
           r == IF c.existing.some
                THEN UpsertUpdate(app_state, c.existing.v[1], c.data,
                                  c.api_key_encrypted, c.now)
                ELSE UpsertInsert(app_state, c.data, c.api_key_encrypted, c.now)
       IN  /\ app_state' = r.app
           /\ calls' = [calls EXCEPT ![i] =
                 [@ EXCEPT !.pc = "done", !.err = r.err,
                           !.config = IF r.err = "" THEN Some(r.val) ELSE Nothing,
                           !.response = IF r.err = "" THEN Some(ToResponse(r.val))
                                        ELSE Nothing]]
    /\ UNCHANGED <<sessions, stream, queue, out, pings, reqs, db_call, locks>>

DeleteAiConfig(id) ==
    /\ app_state' = delete_ai_provider_config(app_state, id).app
    /\ db_call' = [n |-> db_call.n, op |-> "delete_ai_provider_config",
                   arg |-> id, err |-> "", val |-> <<>>]
    /\ UNCHANGED <<sessions, stream, queue, out, pings, reqs, calls, locks>>

ListAiConfigs ==
    /\ LET rows == list_ai_provider_configs(app_state) IN
       db_call' = [n |-> db_call.n, op |-> "list_ai_provider_configs",
                   arg |-> "", err |-> "",
                   val |-> [rows |-> rows,
                            responses |-> [k \in DOMAIN rows |-> ToResponse(rows[k])]]]
    /\ UNCHANGED <<sessions, stream, queue, out, pings, reqs, app_state, calls, locks>>

NextAi ==
    \/ \E data \in AiData, now \in Times : CreateAiConfig(data, now)
    \/ \E i \in DOMAIN calls : UpsertWrite(i)
    \/ \E id \in AiIds : DeleteAiConfig(id)
    \/ ListAiConfigs

SpecAi == Init /\ [][NextAi]_vars

-----------------------------------------------------------------------------
(* api.rs and mcp.rs: the media handlers, one call at a time *)

(* api.rs upload_media: the content type check, the file written under a
   unique name, then the record *)
api_upload_media(st, original_name, content_type, env) ==
    LET ext    == IF Extension(original_name) = None THEN "bin"
                  ELSE Extension(original_name)
        unique == <<NewUuid(st), ext>>
        st1    == [st EXCEPT !.issued = @ + 1]
        st2    == [st1 EXCEPT !.files = @ \cup {unique}]
    IN  IF ~IsMediaMime(content_type) THEN DbErr("BadRequest", st, None)
        ELSE IF ~env.write_ok THEN DbErr("Internal", st1, None)
        ELSE create_media(st2, unique, original_name, content_type)

(* delete_media that reports the failure of the file removal *)
ApiDeleteMediaStrict(st, id, env) ==
    LET r == delete_media(st, id) IN
    IF r.val # None
    THEN LET filename == st.media[id].filename IN
         IF filename \in st.files /\ ~env.write_ok
         THEN DbErr("Internal", r.app, id)
         ELSE DbOk([r.app EXCEPT !.files = @ \ {filename}], id)
    ELSE DbErr("NotFound", r.app, id)

(* api.rs delete_media: the record is deleted, then the file is removed when
   it exists, the result of the removal dropped *)
api_delete_media(st, id, env) ==
    LET r == delete_media(st, id) IN
    IF r.val # None
    THEN LET filename == st.media[id].filename
             removed  == filename \in st.files /\ env.write_ok
         IN  DbOk([r.app EXCEPT !.files = IF removed THEN @ \ {filename} ELSE @],
                  id)
    ELSE DbErr("NotFound", r.app, id)

Uploads ==
    { [original_name |-> "a.png", content_type |-> "image/png"],
      [original_name |-> "a.txt", content_type |-> "text/html"] }

MediaIds == {"u2", "u4", "zz"}

MediaEnvs == { e \in Envs : e.read_ok /\ e.content_type = "image/png" }

UploadMedia(u, env) ==
    DbCall("upload_media", u.original_name,
           api_upload_media(app_state, u.original_name, u.content_type, env),
           [env |-> env])

DeleteMedia(id, env) ==
    DbCall("delete_media", id, api_delete_media(app_state, id, env),
           [env |-> env])

ToolDeleteMedia(id, env) ==
    LET r == tool_delete_media(app_state, [id |-> Str(id)], env) IN
    DbCall("tool_delete_media", id,
           [err |-> IF r.code = 0 THEN "" ELSE r.text, app |-> r.app,
            val |-> r.arg],
           [env |-> env])

(* Another program removes a file of the uploads directory *)
FileRemovedOutside(f) ==
    /\ f \in app_state.files
    /\ app_state' = [app_state EXCEPT !.files = @ \ {f}]
    /\ UNCHANGED <<sessions, stream, queue, out, pings, reqs, db_call, calls, locks>>

NextMedia ==
    \/ \E u \in Uploads, env \in MediaEnvs : UploadMedia(u, env)
    \/ \E id \in MediaIds, env \in MediaEnvs : DeleteMedia(id, env)
    \/ \E id \in MediaIds, env \in MediaEnvs : ToolDeleteMedia(id, env)
    \/ \E f \in app_state.files : FileRemovedOutside(f)

SpecMedia == Init /\ [][NextMedia]_vars

-----------------------------------------------------------------------------
(* One session whose client submits faster than it reads: it submits with
   the token it was given, once every earlier request has returned or waits
   for room in the queue, and it disconnects, if it does, while a request
   waits *)
QueueToken == "t1"

WaitsForRoom(i) ==
    /\ reqs[i].pc = "send"
    /\ ~ReceiverDropped(reqs[i].sender)
    /\ Len(queue[reqs[i].sender]) >= ChannelCapacity

SubmitQueued ==
    /\ Len(reqs) < MaxQueueReqs
    /\ QueueToken \in DOMAIN sessions
    /\ \A i \in DOMAIN reqs : reqs[i].pc = "done" \/ WaitsForRoom(i)
    /\ SubmitCall(QueueToken, Request("7", "initialize", NoParams))

DisconnectWhileWaiting ==
    /\ \E i \in DOMAIN reqs : WaitsForRoom(i)
    /\ Disconnect(QueueToken)

NextQueue ==
    \/ SseOpen(QueueToken)
    \/ StreamPoll(QueueToken)
    \/ DisconnectWhileWaiting
    \/ SubmitQueued
    \/ \E i \in DOMAIN reqs : Process(i)
    \/ \E i \in DOMAIN reqs : Send(i)

SpecQueue == Init /\ [][NextQueue]_vars

-----------------------------------------------------------------------------
(* The handlers as tasks that take the two locks: each waits for a lock where
   the code awaits read() or write(), holds the guard as far as its scope
   reaches, and may stay for ever in an operation that does not return (a
   storage call, the provider call, a send on a full queue) *)

(* The positions of each handler, in order *)
Program(op) ==
    CASE op = "sse_handler"      -> <<"lock_registry", "insert", "done">>
      [] op = "stream_end"       -> <<"lock_registry", "remove", "done">>
      [] op = "message_handler"  -> <<"lock_registry", "get", "lock_state",
                                      "storage", "send", "done">>
      [] op = "ai_generate"      -> <<"lock_state", "config", "provider", "done">>
      [] op = "create_ai_config" -> <<"lock_state", "select", "write", "done">>

NextPc(op, pc) ==
    LET k == CHOOSE k \in DOMAIN Program(op) : Program(op)[k] = pc
    IN  Program(op)[k + 1]

(* sessions.write() in sse_handler and at the end of the stream,
   sessions.read() in message_handler *)
RegistryMode(op) == IF op = "message_handler" THEN "read" ELSE "write"

(* Every handler takes the state lock with read() *)
StateMode(op) == "read"

(* message_handler keeping its read guard until it returns *)
HoldsRegistryGuardToReturn(op, pc) ==
    pc \in {"insert", "get", "remove", "lock_state", "storage", "send"}

(* The registry guards live in blocks that hold the map operation only *)
HoldsRegistryGuard(op, pc) == pc \in {"insert", "get", "remove"}

(* get_provider_for_request returning the guard with the provider *)
HoldsStateGuardAcrossProvider(op, pc) ==
    pc \in {"storage", "config", "select", "write", "provider"}

(* The state guard lives to the end of the tool or handler function;
   get_provider_for_request drops it when it returns, before the provider is
   called *)
HoldsStateGuard(op, pc) == pc \in {"storage", "config", "select", "write"}

LockOf(pc) == IF pc = "lock_registry" THEN "registry" ELSE "state"

ModeOf(op, pc) == IF pc = "lock_registry" THEN RegistryMode(op) ELSE StateMode(op)

HoldsGuard(lock, op, pc) ==
    IF lock = "registry" THEN HoldsRegistryGuard(op, pc) ELSE HoldsStateGuard(op, pc)

IsLockPc(pc) == pc \in {"lock_registry", "lock_state"}

(* Task i moves from pc to next: the guards whose scope ends are dropped, and
   a read() or write() it reaches joins the waiters of its lock *)
LocksAfter(lk, i, op, pc, next) ==
    [l \in {"registry", "state"} |->
        [held    |-> IF HoldsGuard(l, op, pc) /\ ~HoldsGuard(l, op, next)
                     THEN { h \in lk[l].held : h.task # i }
                     ELSE lk[l].held,
         waiting |-> IF IsLockPc(next) /\ LockOf(next) = l
                     THEN Append(lk[l].waiting, [task |-> i, mode |-> ModeOf(op, next)])
                     ELSE lk[l].waiting]]

LockTokens == {"t1", "t2"}

(* The requests that arrive: opening a session, a tools/call on a session,
   an AI request, a create of the AI config; and the end of a session's
   stream *)
Arrivals ==
    { [op |-> "sse_handler", token |-> t] : t \in LockTokens }
    \cup { [op |-> "stream_end", token |-> t] : t \in LockTokens }
    \cup { [op |-> "message_handler", token |-> t] : t \in LockTokens }
    \cup { [op |-> "ai_generate", token |-> None],
           [op |-> "create_ai_config", token |-> None] }

LockedConfigData ==
    [provider_name |-> "openai", api_key |-> "k1", model |-> None,
     base_url |-> None]

Arrive(a) ==
    /\ Len(calls) < MaxCalls
    /\ a.op = "sse_handler"
       => \A i \in DOMAIN calls :
             ~(calls[i].op = "sse_handler" /\ calls[i].token = a.token)
    /\ a.op = "stream_end"
       => /\ a.token \in DOMAIN sessions
          /\ \A i \in DOMAIN calls :
                ~(calls[i].op = "stream_end" /\ calls[i].token = a.token)
    /\ LET i  == Len(calls) + 1
           pc == Program(a.op)[1]
       IN  /\ calls' = Append(calls,
                  [op |-> a.op, token |-> a.token, pc |-> pc, err |-> "",
                   existing |-> Nothing])
           /\ locks' = [locks EXCEPT ![LockOf(pc)].waiting =
                           Append(@, [task |-> i, mode |-> ModeOf(a.op, pc)])]
    /\ UNCHANGED <<sessions, stream, queue, out, pings, reqs, app_state, db_call>>

(* The lock is granted to its first waiter: a reader when no writer holds
   it, a writer when nobody holds it *)
Grant(l) ==
    /\ locks[l].waiting # <<>>
    /\ LET h == Head(locks[l].waiting) IN
       /\ IF h.mode = "read"
          THEN \A g \in locks[l].held : g.mode = "read"
          ELSE locks[l].held = {}
       /\ locks' = [locks EXCEPT ![l].held = @ \cup {h}, ![l].waiting = Tail(@)]
       /\ calls' = [calls EXCEPT ![h.task].pc = NextPc(calls[h.task].op, @)]
    /\ UNCHANGED <<sessions, stream, queue, out, pings, reqs, app_state, db_call>>

(* The operation a task does under its guard *)
MapStep(i) ==
    /\ i \in DOMAIN calls
    /\ calls[i].pc \in {"insert", "get", "remove", "config", "select", "write"}
    /\ LET c      == calls[i]
           config == get_ai_provider_config(app_state, LockedConfigData.provider_name)
           failed == \/ c.pc = "get" /\ RegistryGet(sessions, c.token) = None
                     \/ c.pc = "config" /\ ~config.some
           next   == IF failed THEN "done" ELSE NextPc(c.op, c.pc)
           blob   == encrypt(LockedConfigData.api_key, i)
           r      == IF c.existing.some
                     THEN UpsertUpdate(app_state, c.existing.v[1],
                                       LockedConfigData, blob, 1)
                     ELSE UpsertInsert(app_state, LockedConfigData, blob, 1)
       IN  /\ sessions' = CASE c.pc = "insert" ->
                                   RegistryInsert(sessions, c.token, c.token)
                             [] c.pc = "remove" -> RegistryRemove(sessions, c.token)
                             [] OTHER -> sessions
           /\ app_state' = IF c.pc = "write" THEN r.app ELSE app_state
           /\ calls' = [calls EXCEPT ![i] =
                 [@ EXCEPT !.pc = next,
                           !.existing = IF c.pc = "select" THEN config ELSE @,
                           !.err = CASE c.pc = "get" /\ failed -> "NOT_FOUND"
                                     [] c.pc = "config" /\ failed -> "BadRequest"
                                     [] c.pc = "config" /\ ~failed
                                        /\ decrypt(config.v[1].api_key_encrypted)
                                              # LockedConfigData.api_key -> "Internal"
                                     [] c.pc = "write" -> r.err
                                     [] OTHER -> @]]
           /\ locks' = LocksAfter(locks, i, c.op, c.pc, next)
    /\ UNCHANGED <<stream, queue, out, pings, reqs, db_call>>

(* An awaited operation returns: the storage call of the tool, the provider
   call, the send on the session's queue *)
Return(i) ==
    /\ calls[i].pc \in {"storage", "provider", "send"}
    /\ LET c    == calls[i]
           next == NextPc(c.op, c.pc)
       IN  /\ calls' = [calls EXCEPT ![i].pc = next]
           /\ locks' = LocksAfter(locks, i, c.op, c.pc, next)
    /\ UNCHANGED <<sessions, stream, queue, out, pings, reqs, app_state, db_call>>

NextLocks ==
    \/ \E a \in Arrivals : Arrive(a)
    \/ \E l \in {"registry", "state"} : Grant(l)
    \/ \E i \in DOMAIN calls : MapStep(i)
    \/ \E i \in DOMAIN calls : Return(i)

SpecLocks == Init /\ [][NextLocks]_vars

(* The runtime grants a free lock to its first waiter and polls every task
   that holds a guard; nothing makes an awaited storage call, provider call
   or send return *)
LocksFairness ==
    /\ \A l \in {"registry", "state"} : WF_vars(Grant(l))
    /\ \A i \in 1 .. MaxCalls : WF_vars(MapStep(i))

FairSpecLocks == SpecLocks /\ LocksFairness

-----------------------------------------------------------------------------
(* Concurrent updates of presentations: the handlers hold the state lock in
   read mode, so the statements of update_presentation (SELECT, UPDATE,
   SELECT) and of tool_add_slides (SELECT, then update_presentation) of
   different calls interleave on the connection pool *)

(* UPDATE presentations SET title = ?, content = ?, theme = ?, updated_at = ?
   WHERE id = ? *)
UpdateStatement(st, id, title, content, theme, now) ==
    IF id \in DOMAIN st.presentations
    THEN [st EXCEPT !.presentations[id] =
            [@ EXCEPT !.title = title, !.content = content, !.theme = theme,
                      !.updated_at = now]]
    ELSE st

UpdateCallData ==
    { [title |-> Some("T2"), content |-> Nothing, theme |-> Nothing],
      [title |-> Nothing, content |-> Nothing, theme |-> Some("dark")] }

SlidesTexts == {"s1", "s2"}

UpdateIds == {"u1", "zz"}

NewCall(op, id, data, slides, pc, existing, now, err) ==
    [op |-> op, id |-> id, data |-> data, slides |-> slides, pc |-> pc,
     existing |-> existing, now |-> now, err |-> err]

(* The row the SELECT of get_presentation returns *)
SelectPresentation(st, id) ==
    IF id \in DOMAIN st.presentations THEN Some(st.presentations[id]) ELSE Nothing

(* create_presentation, for the presentations the updates work on *)
CreateForUpdates ==
    /\ Cardinality(DOMAIN app_state.presentations) < MaxPresentations
    /\ calls = <<>>
    /\ app_state' = create_presentation(app_state, "T1", Some(Text("c1")),
                                        Nothing, 1).app
    /\ UNCHANGED <<sessions, stream, queue, out, pings, reqs, db_call, calls, locks>>

(* api.rs update_presentation, up to the first statement of
   Database::update_presentation: the SELECT and Utc::now() *)
UpdateCall(id, data, now) ==
    /\ Len(calls) < MaxCalls
    /\ LET existing == SelectPresentation(app_state, id) IN
       calls' = Append(calls,
          NewCall("update_presentation", id, data, "",
                  IF existing.some THEN "write" ELSE "done",
                  existing, now,
                  IF existing.some THEN "" ELSE "NotFound"))
    /\ UNCHANGED <<sessions, stream, queue, out, pings, reqs, app_state, db_call, locks>>

(* tool_add_slides, up to its own get_presentation: the new content is built
   from the content read here *)
AddSlidesCall(id, slides) ==
    /\ Len(calls) < MaxCalls
    /\ LET got == SelectPresentation(app_state, id) IN
       calls' = Append(calls,
          NewCall("add_slides", id,
                  [title |-> Nothing,
                   content |-> IF got.some
                               THEN Some(AppendSlides(got.v[1].content, slides))
                               ELSE Nothing,
                   theme |-> Nothing],
                  slides,
                  IF got.some THEN "select" ELSE "done",
                  Nothing, 1,
                  IF got.some THEN "" ELSE "NotFound"))
    /\ UNCHANGED <<sessions, stream, queue, out, pings, reqs, app_state, db_call, locks>>

(* The SELECT of the update_presentation that tool_add_slides calls *)
UpdateSelect(i) ==
    /\ calls[i].pc = "select"
    /\ LET existing == SelectPresentation(app_state, calls[i].id) IN
       calls' = [calls EXCEPT ![i] =
          [@ EXCEPT !.existing = existing,
                    !.pc = IF existing.some THEN "write" ELSE "done",
                    !.err = IF existing.some THEN "" ELSE "NotFound"]]
    /\ UNCHANGED <<sessions, stream, queue, out, pings, reqs, app_state, db_call, locks>>

(* The UPDATE, with the omitted fields taken from the row read before *)
UpdateWrite(i) ==
    /\ calls[i].pc = "write"
    /\ LET c        == calls[i]
           existing == c.existing.v[1]
       IN  app_state' = UpdateStatement(app_state, c.id,
                            UnwrapOr(c.data.title, existing.title),
                            UnwrapOr(c.data.content, existing.content),
                            UnwrapOr(c.data.theme, existing.theme),
                            c.now)
    /\ calls' = [calls EXCEPT ![i] = [@ EXCEPT !.pc = "read"]]
    /\ UNCHANGED <<sessions, stream, queue, out, pings, reqs, db_call, locks>>

(* The closing get_presentation, whose row is the answer *)
UpdateRead(i) ==
    /\ calls[i].pc = "read"
    /\ LET got == SelectPresentation(app_state, calls[i].id) IN
       calls' = [calls EXCEPT ![i] =
          [@ EXCEPT !.existing = got, !.pc = "done",
                    !.err = IF got.some THEN "" ELSE "NotFound"]]
    /\ UNCHANGED <<sessions, stream, queue, out, pings, reqs, app_state, db_call, locks>>

NextUpdates ==
    \/ CreateForUpdates
    \/ \E id \in UpdateIds, data \in UpdateCallData, now \in Times :
          UpdateCall(id, data, now)
    \/ \E id \in UpdateIds, slides \in SlidesTexts : AddSlidesCall(id, slides)
    \/ \E i \in DOMAIN calls : UpdateSelect(i)
    \/ \E i \in DOMAIN calls : UpdateWrite(i)
    \/ \E i \in DOMAIN calls : UpdateRead(i)

SpecUpdates == Init /\ [][NextUpdates]_vars

-----------------------------------------------------------------------------
(* encryption.rs: strings are sequences of code points, byte strings are
   sequences of 0 .. 255, base64 text is a sequence of alphabet indices with
   64 for the padding character *)

NONCE_SIZE == 12
KeySize == 32
TagSize == 16
Base64Pad == 64

ROk(x) == [err |-> "", v |-> <<x>>]
RErr(msg) == [err |-> msg, v |-> <<>>]

RECURSIVE SumOf(_)
SumOf(q) == IF q = <<>> THEN 0 ELSE q[1] + SumOf(Tail(q))

RECURSIVE BitXor(_, _)
BitXor(a, b) ==
    IF a = 0 THEN b
    ELSE IF b = 0 THEN a
    ELSE (((a % 2) + (b % 2)) % 2) + 2 * BitXor(a \div 2, b \div 2)

(* str::as_bytes: the UTF-8 encoding *)
Utf8Char(c) ==
    IF c < 128 THEN <<c>>
    ELSE IF c < 2048 THEN <<192 + (c \div 64), 128 + (c % 64)>>
    ELSE <<224 + (c \div 4096), 128 + ((c \div 64) % 64), 128 + (c % 64)>>

RECURSIVE as_bytes(_)
as_bytes(str) ==
    IF str = <<>> THEN <<>> ELSE Utf8Char(str[1]) \o as_bytes(Tail(str))

IsCont(b) == b >= 128 /\ b < 192

(* String::from_utf8: the validating decoder, for sequences of up to three
   bytes per code point *)
RECURSIVE from_utf8(_)
from_utf8(bytes) ==
    IF bytes = <<>> THEN ROk(<<>>)
    ELSE LET b == bytes[1]
             n == IF b < 128 THEN 1
                  ELSE IF b >= 194 /\ b < 224 THEN 2
                  ELSE IF b >= 224 /\ b < 240 THEN 3
                  ELSE 0
         IN  IF n = 0 \/ Len(bytes) < n
                \/ \E k \in 2 .. n : ~IsCont(bytes[k])
             THEN RErr("UTF-8 decode failed")
             ELSE LET c == CASE n = 1 -> b
                             [] n = 2 -> (b - 192) * 64 + (bytes[2] - 128)
                             [] n = 3 -> (b - 224) * 4096 + (bytes[2] - 128) * 64
                                         + (bytes[3] - 128)
                      rest == from_utf8(SubSeq(bytes, n + 1, Len(bytes)))
                  IN  IF n = 3 /\ (c < 2048 \/ (c >= 55296 /\ c < 57344))
                      THEN RErr("UTF-8 decode failed")
                      ELSE IF rest.err # "" THEN rest
                      ELSE ROk(<<c>> \o rest.v[1])

(* BASE64.encode: three bytes to four characters, the last group padded *)
RECURSIVE Base64Encode(_)
Base64Encode(bytes) ==
    CASE Len(bytes) = 0 -> <<>>
      [] Len(bytes) = 1 ->
            <<bytes[1] \div 4, (bytes[1] % 4) * 16, Base64Pad, Base64Pad>>
      [] Len(bytes) = 2 ->
            <<bytes[1] \div 4, (bytes[1] % 4) * 16 + bytes[2] \div 16,
              (bytes[2] % 16) * 4, Base64Pad>>
      [] OTHER ->
            <<bytes[1] \div 4, (bytes[1] % 4) * 16 + bytes[2] \div 16,
              (bytes[2] % 16) * 4 + (bytes[3] \div 64), bytes[3] % 64>>
            \o Base64Encode(SubSeq(bytes, 4, Len(bytes)))

(* BASE64.decode: groups of four characters, padding in the last group only,
   the unused bits of the last character zero *)
RECURSIVE Base64Decode(_)
Base64Decode(text) ==
    IF text = <<>> THEN ROk(<<>>)
    ELSE IF Len(text) < 4 THEN RErr("Base64 decode failed")
    ELSE LET a == text[1]
             b == text[2]
             c == text[3]
             d == text[4]
             last == Len(text) = 4
         IN  IF a = Base64Pad \/ b = Base64Pad THEN RErr("Base64 decode failed")
             ELSE IF c = Base64Pad
             THEN IF last /\ d = Base64Pad /\ b % 16 = 0
                  THEN ROk(<<a * 4 + b \div 16>>)
                  ELSE RErr("Base64 decode failed")
             ELSE IF d = Base64Pad
             THEN IF last /\ c % 4 = 0
                  THEN ROk(<<a * 4 + b \div 16, (b % 16) * 16 + c \div 4>>)
                  ELSE RErr("Base64 decode failed")
             ELSE LET rest == Base64Decode(SubSeq(text, 5, Len(text))) IN
                  IF rest.err # "" THEN rest
                  ELSE ROk(<<a * 4 + b \div 16, (b % 16) * 16 + c \div 4,
                             (c % 4) * 64 + d>> \o rest.v[1])

(* "slides-desktop-default-key-32b!" *)
DefaultKey == <<115, 108, 105, 100, 101, 115, 45, 100, 101, 115, 107, 116, 111, 112, 45, 100, 101, 102, 97, 117, 108, 116, 45, 107, 101, 121, 45, 51, 50, 98, 33>>

(* get_key: the bytes of SLIDES_ENCRYPTION_KEY, or of the default when the
   variable is not set, cut or zero-padded to 32 *)
get_key(key_env) ==
    LET bytes == IF key_env.some THEN key_env.v[1] ELSE DefaultKey
        len   == IF Len(bytes) < KeySize THEN Len(bytes) ELSE KeySize
    IN  [i \in 1 .. KeySize |-> IF i <= len THEN bytes[i] ELSE 0]

(* Aes256Gcm in counter mode: byte i of the text is combined with byte i of a
   key stream that depends on the key and the nonce *)
StreamSeed(key, nonce) == SumOf(key) + 31 * SumOf(nonce)

KeyStream(seed, i) == (seed + 7 * i) % 256

(* The authentication tag over the key, the nonce and the ciphertext *)
Tag(seed, ciphertext) ==
    LET sum == seed + 5 * SumOf(ciphertext) IN
    [j \in 1 .. TagSize |-> (sum + j * (Len(ciphertext) + 1)) % 256]

(* cipher.encrypt(nonce, plaintext): the ciphertext followed by the tag *)
cipher_encrypt(key, nonce, plaintext) ==
    LET seed       == StreamSeed(key, nonce)
        ciphertext == [i \in 1 .. Len(plaintext) |->
                          BitXor(plaintext[i], KeyStream(seed, i))]
    IN  ciphertext \o Tag(seed, ciphertext)

(* cipher.decrypt(nonce, ciphertext): the tag is verified first *)
cipher_decrypt(key, nonce, sealed) ==
    IF Len(sealed) < TagSize THEN RErr("Decryption failed")
    ELSE LET n          == Len(sealed) - TagSize
             seed       == StreamSeed(key, nonce)
             ciphertext == SubSeq(sealed, 1, n)
             tag        == SubSeq(sealed, n + 1, Len(sealed))
         IN  IF tag # Tag(seed, ciphertext) THEN RErr("Decryption failed")
             ELSE ROk([i \in 1 .. n |->
                          BitXor(ciphertext[i], KeyStream(seed, i))])

(* encrypt: nonce_bytes is what rand::thread_rng() filled in *)
encrypt_string(plaintext, nonce_bytes, key_env) ==
    LET key == get_key(key_env)
        combined == nonce_bytes \o cipher_encrypt(key, nonce_bytes, as_bytes(plaintext))
    IN  ROk(Base64Encode(combined))

(* decrypt that takes the nonce to be as long as the tag *)
DecryptSplitAtTagSize(encrypted, key_env) ==
    LET key      == get_key(key_env)
        combined == Base64Decode(encrypted)
    IN  IF combined.err # "" THEN combined
        ELSE IF Len(combined.v[1]) < TagSize THEN RErr("Invalid encrypted data")
        ELSE LET nonce_bytes == SubSeq(combined.v[1], 1, TagSize)
                 ciphertext  == SubSeq(combined.v[1], TagSize + 1,
                                       Len(combined.v[1]))
                 plaintext   == cipher_decrypt(key, nonce_bytes, ciphertext)
             IN  IF plaintext.err # "" THEN plaintext
                 ELSE from_utf8(plaintext.v[1])

(* decrypt *)
decrypt_string(encrypted, key_env) ==
    LET key      == get_key(key_env)
        combined == Base64Decode(encrypted)
    IN  IF combined.err # "" THEN combined
        ELSE IF Len(combined.v[1]) < NONCE_SIZE THEN RErr("Invalid encrypted data")
        ELSE LET nonce_bytes == SubSeq(combined.v[1], 1, NONCE_SIZE)
                 ciphertext  == SubSeq(combined.v[1], NONCE_SIZE + 1,
                                       Len(combined.v[1]))
                 plaintext   == cipher_decrypt(key, nonce_bytes, ciphertext)
             IN  IF plaintext.err # "" THEN plaintext
                 ELSE from_utf8(plaintext.v[1])

(* The code points a, e with acute accent and the euro sign, of one, two and
   three bytes *)
CodePoints == {97, 233, 8364}

Plaintexts == UNION { [1 .. n -> CodePoints] : n \in 0 .. MaxLen }

Nonces ==
    { [i \in 1 .. NONCE_SIZE |-> 255],
      [i \in 1 .. NONCE_SIZE |-> (37 * i) % 256] }

(* SLIDES_ENCRYPTION_KEY: not set, shorter than 32 bytes, longer *)
KeyEnvs ==
    { Nothing, Some(<<107, 49>>), Some([i \in 1 .. 40 |-> 64 + i]) }

(* A call of encrypt, with the nonce the generator drew *)
Encrypt(plaintext, nonce_bytes, key_env) ==
    /\ db_call' = [n |-> 0, op |-> "encrypt", arg |-> "", err |-> "",
                   val |-> [plaintext |-> plaintext, nonce |-> nonce_bytes,
                            key_env |-> key_env,
                            encrypted |-> encrypt_string(plaintext, nonce_bytes,
                                                         key_env),
                            decrypted |-> RErr("")]]
    /\ UNCHANGED <<sessions, stream, queue, out, pings, reqs, app_state, calls, locks>>

(* A call of decrypt on what the last encrypt returned, in the same
   environment *)
Decrypt ==
    /\ db_call.op = "encrypt"
    /\ db_call.val.encrypted.err = ""
    /\ db_call' = [db_call EXCEPT
                     !.op = "decrypt",
                     !.val.decrypted = decrypt_string(db_call.val.encrypted.v[1],
                                                      db_call.val.key_env)]
    /\ UNCHANGED <<sessions, stream, queue, out, pings, reqs, app_state, calls, locks>>

NextCrypt ==
    \/ \E plaintext \in Plaintexts, nonce_bytes \in Nonces, key_env \in KeyEnvs :
          Encrypt(plaintext, nonce_bytes, key_env)
    \/ Decrypt

SpecCrypt == Init /\ [][NextCrypt]_vars

-----------------------------------------------------------------------------
(* The layout rule matcher, which reads the rules as listed *)

Cmp(op, n) == [op |-> op, n |-> n, b |-> FALSE]
Is(b) == [op |-> "is", n |-> 0, b |-> b]

(* DecodeConditions when no text parses: every condition set is Null *)
DecodeConditionsAlwaysNull(s) == EmptyFn

(* LayoutRuleResponse::from: serde_json::from_str(&rule.conditions), on the
   condition texts of the model; a text that does not parse becomes Null,
   which has no field *)
DecodeConditions(s) ==
    CASE s = "{}" -> EmptyFn
      [] s = "{\"imageCount\":{\"eq\":1}}" -> [imageCount |-> Cmp("eq", 1)]
      [] s = "{\"h3Count\":{\"gte\":2},\"imageCount\":{\"eq\":0},\"hasCards\":false}" ->
            [h3Count |-> Cmp("gte", 2), imageCount |-> Cmp("eq", 0),
             hasCards |-> Is(FALSE)]
      [] s = "{\"hasHeading\":true,\"imageCount\":{\"eq\":0},\"hasCards\":false,\"hasList\":false,\"hasCodeBlock\":false,\"hasBlockquote\":false,\"textParagraphCount\":{\"lte\":1}}" ->
            [hasHeading |-> Is(TRUE), imageCount |-> Cmp("eq", 0),
             hasCards |-> Is(FALSE), hasList |-> Is(FALSE),
             hasCodeBlock |-> Is(FALSE), hasBlockquote |-> Is(FALSE),
             textParagraphCount |-> Cmp("lte", 1)]
      [] s = "{\"hasCards\":true,\"imageCount\":{\"gt\":0}}" ->
            [hasCards |-> Is(TRUE), imageCount |-> Cmp("gt", 0)]
      [] s = "{\"hasHeading\":true,\"imageCount\":{\"gte\":2}}" ->
            [hasHeading |-> Is(TRUE), imageCount |-> Cmp("gte", 2)]
      [] s = "{\"hasHeading\":true,\"imageCount\":{\"eq\":1},\"mediaBeforeText\":true}" ->
            [hasHeading |-> Is(TRUE), imageCount |-> Cmp("eq", 1),
             mediaBeforeText |-> Is(TRUE)]
      [] s = "{\"hasHeading\":true,\"imageCount\":{\"eq\":1}}" ->
            [hasHeading |-> Is(TRUE), imageCount |-> Cmp("eq", 1)]
      [] OTHER -> EmptyFn

(* The structural summaries of a slide *)
Summaries ==
    [hasHeading : BOOLEAN, imageCount : 0..2, figureCount : {0},
     h3Count : {0, 2}, textParagraphCount : {1, 2}, hasCards : BOOLEAN,
     hasList : {FALSE}, hasCodeBlock : {FALSE}, hasBlockquote : {FALSE},
     mediaBeforeText : BOOLEAN]

(* One field of a condition set against the field of the summary *)
Holds(pred, value) ==
    CASE pred.op = "eq"  -> value = pred.n
      [] pred.op = "gt"  -> value > pred.n
      [] pred.op = "gte" -> value >= pred.n
      [] pred.op = "lte" -> value <= pred.n
      [] pred.op = "is"  -> value = pred.b

ConditionFields ==
    <<"hasHeading", "imageCount", "figureCount", "h3Count", "textParagraphCount",
      "hasCards", "hasList", "hasCodeBlock", "hasBlockquote", "mediaBeforeText">>

RECURSIVE EvalFrom(_, _, _)
(* The fields are looked at one after the other; a field the condition set
   does not have is passed over, the first field that fails ends the scan *)
EvalFrom(conds, summary, k) ==
    IF k > Len(ConditionFields) THEN TRUE
    ELSE LET f == ConditionFields[k] IN
         IF f \notin DOMAIN conds THEN EvalFrom(conds, summary, k + 1)
         ELSE IF ~Holds(conds[f], summary[f]) THEN FALSE
         ELSE EvalFrom(conds, summary, k + 1)

Satisfies(conds, summary) == EvalFrom(conds, summary, 1)

RECURSIVE ScanFrom(_, _, _)
(* The linear scan of the listing: the first enabled rule whose condition
   set is satisfied, or no rule *)
ScanFrom(listing, summary, k) ==
    IF k > Len(listing) THEN Nothing
    ELSE IF listing[k].enabled
            /\ Satisfies(DecodeConditions(listing[k].conditions), summary)
         THEN Some(listing[k])
         ELSE ScanFrom(listing, summary, k + 1)

SelectRule(listing, summary) == ScanFrom(listing, summary, 1)

RuleConditions == {"{}", "{\"imageCount\":{\"eq\":1}}"}
MatchRuleNames == {"mine", "other"}

(* create_layout_rule with a condition set *)
CreateRuleWithConditions(name, priority, conditions) ==
    /\ db_call.n < MaxRuleCreates
    /\ LET r == create_layout_rule(app_state, name, priority, conditions, "{}") IN
       /\ app_state' = r.app
       /\ db_call' = [n |-> db_call.n + 1, op |-> "create_layout_rule",
                      arg |-> name, err |-> r.err, val |-> <<>>]
    /\ UNCHANGED <<sessions, stream, queue, out, pings, reqs, calls, locks>>

(* The matcher lists the rules and selects one for the summary *)
SelectLayout(summary) ==
    /\ \E listing \in list_layout_rules(app_state) :
          db_call' = [n |-> db_call.n, op |-> "select_layout", arg |-> "",
                      err |-> "",
                      val |-> [listing |-> listing, summary |-> summary,
                               result |-> SelectRule(listing, summary)]]
    /\ UNCHANGED <<sessions, stream, queue, out, pings, reqs, app_state, calls, locks>>

NextMatch ==
    \/ \E name \in MatchRuleNames, priority \in RulePriorities,
          conditions \in RuleConditions :
          CreateRuleWithConditions(name, priority, conditions)
    \/ \E summary \in Summaries : SelectLayout(summary)

SpecMatch == Init /\ [][NextMatch]_vars

-----------------------------------------------------------------------------
(* Properties                                                               *)
-----------------------------------------------------------------------------

Terminated(t) == stream[t] \in {"dropped", "ended"}

(* C1: for every session opened by sse_handler, once its stream has
   terminated (the consumer disconnected or the queue closed) the registry
   eventually no longer contains the session's token. *)
C1_TerminatedSessionUnregistered ==
    \A t \in Tokens : Terminated(t) ~> (t \notin DOMAIN sessions)

Done(i) == reqs[i].pc = "done"

Registered(i) == reqs[i].status # "NOT_FOUND"

(* The step in which call i leaves sender.send *)
SendStep(i) ==
    /\ i \in DOMAIN reqs
    /\ reqs[i].pc = "send"
    /\ reqs'[i].pc = "done"

(* The message carries the id of the request: the id itself, or no id field
   when the request has none *)
CarriesId(msg, id) ==
    IF id = None THEN "id" \notin DOMAIN msg
    ELSE "id" \in DOMAIN msg /\ msg.id = id

(* C2 as stated: for every request submitted with a registered token, a
   request with a non-null id has exactly one response enqueued for it, and
   an id-less notifications/initialized has none. *)
C2_ExactlyOneResponse ==
    \A i \in DOMAIN reqs :
        (Registered(i) /\ Done(i)) =>
            /\ reqs[i].request.id # None => reqs[i].sent = 1
            /\ IsNotification(reqs[i].request) => reqs[i].sent = 0

(* C2, amended: for every request submitted with a registered token, never
   more than one response is enqueued; a call that returns ACCEPTED for a
   request with a non-null id has enqueued exactly one response, carrying
   that id, on the queue of that token's session; a call that returns
   INTERNAL_SERVER_ERROR (the receiver was gone) has enqueued none; an id-less
   notifications/initialized has none enqueued. *)
C2_OneResponseWhenAccepted ==
    /\ [](\A i \in DOMAIN reqs :
            /\ reqs[i].sent <= 1
            /\ (Done(i) /\ reqs[i].request.id # None /\ reqs[i].status = "ACCEPTED")
                  => reqs[i].sent = 1
            /\ reqs[i].status = "INTERNAL_SERVER_ERROR" => reqs[i].sent = 0
            /\ IsNotification(reqs[i].request) => reqs[i].sent = 0)
    /\ [][\A i \in DOMAIN reqs : SendStep(i) =>
            IF reqs'[i].status = "ACCEPTED"
            THEN /\ Len(queue'[reqs[i].token]) = Len(queue[reqs[i].token]) + 1
                 /\ CarriesId(queue'[reqs[i].token][Len(queue'[reqs[i].token])],
                              reqs[i].request.id)
                 /\ \A t \in Tokens \ {reqs[i].token} : queue'[t] = queue[t]
            ELSE queue' = queue]_vars

(* One call answered on its session and one that found the receiver gone *)
C2_Witness ==
    /\ Len(reqs) = 2
    /\ reqs[1].request.id = "7" /\ reqs[1].status = "ACCEPTED" /\ reqs[1].sent = 1
    /\ reqs[2].request.id = "7" /\ reqs[2].status = "INTERNAL_SERVER_ERROR"
    /\ reqs[2].sent = 0

(* C3: a submit whose token is not in the registry returns NOT_FOUND before
   any dispatch: no handler and no storage operation runs for it, storage is
   unchanged and nothing is enqueued on any queue, whatever the payload. *)
C3_UnknownSessionNotFound ==
    /\ [](\A i \in DOMAIN reqs :
            reqs[i].status = "NOT_FOUND" =>
                /\ Done(i)
                /\ ~reqs[i].some
                /\ reqs[i].ops = 0
                /\ ~reqs[i].changed
                /\ reqs[i].sent = 0)
    /\ [][(/\ Len(reqs') = Len(reqs) + 1
           /\ reqs'[Len(reqs')].token \notin DOMAIN sessions)
          => (/\ reqs'[Len(reqs')].status = "NOT_FOUND"
              /\ reqs'[Len(reqs')].pc = "done"
              /\ app_state' = app_state
              /\ queue' = queue)]_vars

(* A tool call that would write was refused for its unknown token, while
   another session is registered *)
C3_Witness ==
    \E i \in DOMAIN reqs :
        /\ reqs[i].status = "NOT_FOUND"
        /\ reqs[i].request.method = "tools/call"
        /\ reqs[i].token \notin DOMAIN sessions
        /\ DOMAIN sessions # {}

RoutedMethods ==
    {"initialize", "tools/list", "tools/call", "notifications/initialized"}

(* C4: for every request submitted with a registered token whose method is
   none of initialize, tools/list, tools/call and notifications/initialized,
   the response is an error with code -32601 and the id of the request and
   has no result, the message enqueued for it says the same, and no storage
   operation is invoked. *)
C4_MethodNotFound ==
    /\ [](\A i \in DOMAIN reqs :
            (/\ Registered(i)
             /\ reqs[i].request.method \notin RoutedMethods
             /\ reqs[i].pc \in {"send", "done"})
            => (/\ reqs[i].some
                /\ reqs[i].resp.is_error
                /\ reqs[i].resp.code = -32601
                /\ reqs[i].resp.id = reqs[i].request.id
                /\ reqs[i].ops = 0
                /\ ~reqs[i].changed))
    /\ [][\A i \in DOMAIN reqs :
            (/\ SendStep(i)
             /\ reqs[i].request.method \notin RoutedMethods
             /\ reqs'[i].status = "ACCEPTED")
            => LET q   == queue'[reqs[i].token]
                   msg == q[Len(q)]
               IN  /\ "error" \in DOMAIN msg
                   /\ "result" \notin DOMAIN msg
                   /\ msg.error.code = -32601
                   /\ CarriesId(msg, reqs[i].request.id)]_vars

(* Unknown methods, one with an id and one without, were answered *)
C4_Witness ==
    /\ Len(reqs) = 2
    /\ reqs[1].request = Request("7", "resources/list", NoParams)
    /\ reqs[2].request = Request(None, "notifications/cancelled", NoParams)
    /\ \A i \in {1, 2} : reqs[i].status = "ACCEPTED" /\ reqs[i].sent = 1

(* The call found its token registered and the receiver of its session
   already gone *)
ClosedAtSubmit(i) == reqs[i].sender # None /\ ~reqs[i].open_at_lookup

(* C5 as stated: if the queue of a session has been closed, every submit
   made with that session's token fails with INTERNAL_SERVER_ERROR, whatever
   its method and whether or not it carries an id. *)
C5_ClosedQueueAlwaysFails ==
    \A i \in DOMAIN reqs :
        (ClosedAtSubmit(i) /\ Done(i)) => reqs[i].status = "INTERNAL_SERVER_ERROR"

(* C5, amended: if the queue of a session has been closed, every submit made
   with that session's token that has a response to send fails with
   INTERNAL_SERVER_ERROR; the one request without a response, an id-less
   notifications/initialized, returns ACCEPTED. *)
C5_ClosedQueueFailsResponses ==
    \A i \in DOMAIN reqs :
        (ClosedAtSubmit(i) /\ Done(i)) =>
            reqs[i].status = IF IsNotification(reqs[i].request)
                             THEN "ACCEPTED" ELSE "INTERNAL_SERVER_ERROR"

(* After the consumer left, a request and a notification were submitted *)
C5_Witness ==
    /\ Len(reqs) = 2
    /\ \A i \in {1, 2} : ClosedAtSubmit(i) /\ Done(i)
    /\ reqs[1].status = "INTERNAL_SERVER_ERROR"
    /\ reqs[2].status = "ACCEPTED"

(* C6: a request whose id is absent is a notification: whatever its method,
   no reply is enqueued for it. *)
C6_NoReplyWithoutId ==
    \A i \in DOMAIN reqs :
        reqs[i].request.id = None => (~reqs[i].some /\ reqs[i].sent = 0)

(* The arguments that the catalog requires of the tool and call i lacks *)
MissingRequired(i) ==
    LET name == AsStr(reqs[i].request.params.name)
    IN  IF reqs[i].request.method = "tools/call" /\ name \in DOMAIN ToolCatalog
        THEN ToolCatalog[name] \ DOMAIN reqs[i].request.params.arguments
        ELSE {}

(* C7: for every tool of the catalog and every argument its input schema
   lists under "required", a tools/call that lacks the argument yields an
   error response with code -32602 naming a missing field, and invokes no
   storage operation: storage is unchanged. *)
C7_RequiredArgumentsValidated ==
    \A i \in DOMAIN reqs :
        (/\ Registered(i)
         /\ reqs[i].pc \in {"send", "done"}
         /\ MissingRequired(i) # {})
        => (/\ reqs[i].resp.is_error
            /\ reqs[i].resp.code = -32602
            /\ reqs[i].resp.arg \in MissingRequired(i)
            /\ reqs[i].ops = 0
            /\ ~reqs[i].changed)

(* The names matched by handle_tools_call *)
DispatchedTools ==
    {"list_presentations", "get_presentation", "create_presentation",
     "update_presentation", "delete_presentation", "list_themes", "add_slides",
     "list_media", "upload_media", "delete_media", "list_layout_rules",
     "create_layout_rule", "delete_layout_rule"}

UnknownToolCall(i) ==
    /\ reqs[i].request.method = "tools/call"
    /\ AsStr(reqs[i].request.params.name) # None
    /\ AsStr(reqs[i].request.params.name) \notin DispatchedTools

(* C8: a tools/call whose tool name is not one of the 13 dispatched names
   yields an error response with code -32602 carrying the id of the request,
   the message enqueued for it says the same, and no storage operation is
   invoked. *)
C8_UnknownTool ==
    /\ [](\A i \in DOMAIN reqs :
            (Registered(i) /\ UnknownToolCall(i) /\ reqs[i].pc \in {"send", "done"})
            => (/\ reqs[i].some
                /\ reqs[i].resp.is_error
                /\ reqs[i].resp.code = -32602
                /\ reqs[i].resp.id = reqs[i].request.id
                /\ reqs[i].ops = 0
                /\ ~reqs[i].changed))
    /\ [][\A i \in DOMAIN reqs :
            (SendStep(i) /\ UnknownToolCall(i) /\ reqs'[i].status = "ACCEPTED")
            => LET q   == queue'[reqs[i].token]
                   msg == q[Len(q)]
               IN  /\ "error" \in DOMAIN msg
                   /\ msg.error.code = -32602
                   /\ CarriesId(msg, reqs[i].request.id)
                   /\ app_state' = app_state]_vars

(* Calls of an unknown tool, with and without an id, were answered after a
   presentation was created *)
C8_Witness ==
    /\ \E i \in DOMAIN reqs :
          /\ reqs[i].request = Call("7", "no_such_tool", EmptyFn)
          /\ reqs[i].status = "ACCEPTED" /\ reqs[i].sent = 1
    /\ \E i \in DOMAIN reqs :
          /\ reqs[i].request = Call(None, "no_such_tool", EmptyFn)
          /\ reqs[i].status = "ACCEPTED" /\ reqs[i].sent = 1

EndpointEvents(t) ==
    { k \in 1..Len(out[t]) : out[t][k].event = "endpoint" }

(* C9: the endpoint event is the first event of every session stream, it is
   emitted exactly once and announces the token of the session, the token is
   registered when the event is emitted, and a submit made with the token
   while the stream is open never returns NOT_FOUND. *)
C9_EndpointFirstAndRegistered ==
    /\ [](\A t \in Tokens :
            /\ out[t] # <<>> => (/\ out[t][1].event = "endpoint"
                                 /\ out[t][1].token = t
                                 /\ Cardinality(EndpointEvents(t)) = 1)
            /\ stream[t] \in {"ready", "open"} => t \in DOMAIN sessions)
    /\ [](\A i \in DOMAIN reqs :
            reqs[i].open_at_lookup => reqs[i].status # "NOT_FOUND")
    /\ [][\A t \in Tokens :
            (/\ Len(out'[t]) = Len(out[t]) + 1
             /\ out'[t][Len(out'[t])].event = "endpoint")
            => (t \in DOMAIN sessions /\ t \in DOMAIN sessions')]_vars

(* Both streams are open, each announced once, and a request submitted on
   the first after its announcement was delivered behind the endpoint event *)
C9_Witness ==
    /\ \A t \in Tokens : stream[t] = "open" /\ out[t] # <<>>
    /\ Len(out["t1"]) >= 2
    /\ out["t1"][2].event = "message"
    /\ \E i \in DOMAIN reqs :
          /\ reqs[i].token = "t1"
          /\ reqs[i].open_at_lookup
          /\ reqs[i].status = "ACCEPTED"

DefaultRuleIds == { r.id : r \in SeedLayoutRules }

(* C10: default layout rules cannot be deleted.  After any sequence of
   create_layout_rule and delete_layout_rule every rule seeded with
   is_default = 1 is stored as it was seeded, and a delete_layout_rule on the
   id of a default rule returns an error and leaves the rule store as it
   was. *)
C10_DefaultRulesKept ==
    /\ [](SeedLayoutRules \subseteq app_state.layout_rules)
    /\ [][ (/\ db_call'.n # db_call.n
            /\ db_call'.op = "delete_layout_rule"
            /\ db_call'.arg \in DefaultRuleIds)
           => (/\ db_call'.err # ""
               /\ app_state'.layout_rules = app_state.layout_rules) ]_vars

(* A default rule's delete was refused after a custom rule had been created
   and deleted. *)
C10_Witness ==
    /\ db_call.op = "delete_layout_rule"
    /\ db_call.arg = "r2"
    /\ db_call.err = "BadRequest"
    /\ app_state.issued >= 1
    /\ app_state.layout_rules = SeedLayoutRules
    /\ db_call.n >= 3

NameInUse(name) == \E r \in app_state.layout_rules : r.name = name

(* C11: layout rule names are unique.  In every reachable state no two
   stored layout rules have the same name, and a create_layout_rule with a
   name in use, by a default or by a custom rule, fails and leaves the rule
   store as it was, also when the creates of one name are in flight
   together. *)
C11_RuleNamesUnique ==
    /\ [](\A r1, r2 \in app_state.layout_rules : r1.name = r2.name => r1 = r2)
    /\ [][ \A i \in DOMAIN calls :
             (/\ calls[i].pc = "insert"
              /\ calls'[i].pc = "done"
              /\ NameInUse(calls[i].name))
             => (/\ calls'[i].err # ""
                 /\ app_state'.layout_rules = app_state.layout_rules) ]_vars

(* Two creates of one new name were in flight together: one stored its rule
   and the other failed; a create with the name of a default rule failed. *)
C11_Witness ==
    /\ Len(calls) = 3
    /\ calls[1].name = "mine" /\ calls[2].name = "mine" /\ calls[3].name = "hero"
    /\ \A i \in 1..3 : calls[i].pc = "done"
    /\ calls[1].err = "Database" /\ calls[2].err = "" /\ calls[3].err = "Database"
    /\ Cardinality({ r \in app_state.layout_rules : r.name = "mine" }) = 1

Range(l) == { l[i] : i \in DOMAIN l }

(* The rules of the listing whose condition set the summary satisfies *)
SatisfiedRules(listing, summary) ==
    { r \in Range(listing) :
        r.enabled /\ Satisfies(DecodeConditions(r.conditions), summary) }

(* C12: selection is first-match in ascending priority.  For every listing
   returned by list_layout_rules, which holds the stored rules in
   non-decreasing priority order, and every slide summary, the selected rule
   is a rule whose condition set is satisfied and no satisfied rule has a
   strictly lower priority number; if no rule is satisfied the result is "no
   layout override applies". *)
C12_FirstMatchByPriority ==
    db_call.op = "select_layout" =>
        LET v   == db_call.val
            sat == SatisfiedRules(v.listing, v.summary)
        IN  /\ Range(v.listing) = app_state.layout_rules
            /\ \A i, j \in DOMAIN v.listing :
                  i < j => v.listing[i].priority <= v.listing[j].priority
            /\ IF sat = {} THEN ~v.result.some
               ELSE /\ v.result.some
                    /\ v.result.v[1] \in sat
                    /\ \A r \in sat : v.result.v[1].priority <= r.priority

(* An always-true custom rule of priority 5 was selected before the default
   rule that the summary also satisfies *)
C12_Witness ==
    /\ db_call.op = "select_layout"
    /\ db_call.val.result.some
    /\ db_call.val.result.v[1].priority = 5
    /\ db_call.val.result.v[1].conditions = "{}"
    /\ Cardinality(SatisfiedRules(db_call.val.listing, db_call.val.summary)) >= 3

(* No rule is satisfied: no layout override applies *)
C12_WitnessNoRule ==
    /\ db_call.op = "select_layout"
    /\ ~db_call.val.result.some
    /\ Len(db_call.val.listing) = 8

(* Every field the condition set specifies satisfies its comparator *)
EveryFieldHolds(conds, summary) ==
    \A f \in DOMAIN conds :
        /\ conds[f].op = "eq"  => summary[f] = conds[f].n
        /\ conds[f].op = "gt"  => summary[f] > conds[f].n
        /\ conds[f].op = "gte" => summary[f] >= conds[f].n
        /\ conds[f].op = "lte" => summary[f] <= conds[f].n
        /\ conds[f].op = "is"  => summary[f] = conds[f].b

(* The place of the selected rule in the listing; past the end when no rule
   is selected *)
SelectedAt(v) ==
    IF v.result.some
    THEN CHOOSE i \in DOMAIN v.listing : v.listing[i] = v.result.v[1]
    ELSE Len(v.listing) + 1

(* C13: condition evaluation is a conjunction with wildcards.  The scan
   passes over a rule exactly when some field its condition set specifies
   fails its comparator (eq, gt, gte, lte, or boolean equality) against the
   summary, so that a rule without predicates is never passed over, and a
   rule whose only predicate is imageCount {eq: 1} is passed over exactly
   when the image count of the summary is not 1. *)
C13_ConjunctionWithWildcards ==
    db_call.op = "select_layout" =>
        LET v  == db_call.val
            at == SelectedAt(v)
        IN  /\ \A i \in DOMAIN v.listing :
                  i < at => ~EveryFieldHolds(DecodeConditions(v.listing[i].conditions),
                                             v.summary)
            /\ v.result.some =>
                  EveryFieldHolds(DecodeConditions(v.result.v[1].conditions), v.summary)
            /\ \A i \in DOMAIN v.listing :
                  v.listing[i].conditions = "{}" => at <= i
            /\ \A i \in DOMAIN v.listing :
                  v.listing[i].conditions = "{\"imageCount\":{\"eq\":1}}" =>
                      IF v.summary.imageCount = 1 THEN at <= i ELSE at # i

(* A custom rule with the one predicate imageCount {eq: 1} was selected for
   a summary with one image, ahead of the default rules *)
C13_Witness ==
    /\ db_call.op = "select_layout"
    /\ db_call.val.result.some
    /\ db_call.val.result.v[1].conditions = "{\"imageCount\":{\"eq\":1}}"
    /\ db_call.val.result.v[1].priority = 5
    /\ db_call.val.summary.imageCount = 1
    /\ db_call.val.summary.hasHeading

(* C14: for layout rules of one priority, such as custom rules created with
   the default priority 100, the order in which list_layout_rules returns
   them is deterministic: two listings of the same stored rule set return
   the rules in the same order. *)
C14_TieOrderDeterministic ==
    [][ (/\ db_call.op = "list_layout_rules"
         /\ db_call'.op = "list_layout_rules"
         /\ db_call'.n # db_call.n)
        => db_call'.val = db_call.val ]_vars

(* The step is a direct call of the Database operation op *)
DbStep(op) == db_call'.n # db_call.n /\ db_call'.op = op

Without(f, k) == [x \in DOMAIN f \ {k} |-> f[x]]

(* C15: update_presentation on an existing presentation, run without
   interleaving: each of title, content and theme that is omitted keeps its
   stored value, each that is provided is replaced by the provided value,
   created_at and the id are unchanged, updated_at is set anew on every
   update, also when all three are omitted, and no other presentation
   changes. *)
C15_UpdateFrame ==
    [][ (DbStep("update_presentation")
         /\ db_call'.arg \in DOMAIN app_state.presentations)
        => LET id  == db_call'.arg
               d   == db_call'.val.data
               old == app_state.presentations[id]
               new == app_state'.presentations[id]
           IN  /\ db_call'.err = ""
               /\ DOMAIN app_state'.presentations = DOMAIN app_state.presentations
               /\ new.title = IF d.title.some THEN d.title.v[1] ELSE old.title
               /\ new.content = IF d.content.some THEN d.content.v[1] ELSE old.content
               /\ new.theme = IF d.theme.some THEN d.theme.v[1] ELSE old.theme
               /\ new.created_at = old.created_at
               /\ new.updated_at = db_call'.val.now
               /\ Without(app_state'.presentations, id)
                    = Without(app_state.presentations, id) ]_vars

(* An update that omits all three fields, after one that set the theme:
   title, content and theme are as stored and updated_at is the time of the
   last update *)
C15_Witness ==
    /\ db_call.op = "update_presentation"
    /\ db_call.arg = "u1"
    /\ db_call.err = ""
    /\ db_call.val.data = [title |-> Nothing, content |-> Nothing, theme |-> Nothing]
    /\ db_call.val.now = 2
    /\ "u1" \in DOMAIN app_state.presentations
    /\ app_state.presentations["u1"] =
          [title |-> "T1", content |-> Text("c1"), theme |-> "dark",
           created_at |-> 1, updated_at |-> 2]

(* C16: delete_presentation on an id that is not stored returns NotFound and
   leaves storage unchanged; on a stored id it removes exactly that
   presentation and leaves the others unchanged, after which
   get_presentation and a second delete_presentation on the id both return
   NotFound. *)
C16_DeletePresentation ==
    /\ [][ DbStep("delete_presentation") =>
             IF db_call'.arg \in DOMAIN app_state.presentations
             THEN /\ db_call'.err = ""
                  /\ app_state'.presentations
                       = Without(app_state.presentations, db_call'.arg)
                  /\ Storage(app_state') =
                       [Storage(app_state) EXCEPT
                          !.presentations = app_state'.presentations]
             ELSE /\ db_call'.err = "NotFound"
                  /\ Storage(app_state') = Storage(app_state) ]_vars
    /\ [][ (/\ DbStep("get_presentation")
            /\ db_call'.arg \notin DOMAIN app_state.presentations)
           => (db_call'.err = "NotFound" /\ Storage(app_state') = Storage(app_state))
         ]_vars
    /\ [][ (DbStep("delete_presentation") /\ db_call'.err = "")
           => db_call'.arg \notin DOMAIN app_state'.presentations ]_vars

(* The second delete of a presentation that was created and deleted, while
   another presentation is stored *)
C16_Witness ==
    /\ db_call.op = "delete_presentation"
    /\ db_call.arg = "u1"
    /\ db_call.err = "NotFound"
    /\ app_state.issued = 2
    /\ DOMAIN app_state.presentations = {"u2"}
    /\ db_call.n = 4

(* A get of a deleted presentation *)
C16_WitnessGet ==
    /\ db_call.op = "get_presentation"
    /\ db_call.arg = "u1"
    /\ db_call.err = "NotFound"
    /\ app_state.issued = 1
    /\ db_call.n = 3

(* Call i writes in this step *)
WriteStep(i) == calls[i].pc = "write" /\ calls'[i].pc = "done"

(* C17: upsert_ai_provider_config for a provider name that has a config,
   found by the lookup of the call and still stored under its id when the
   call writes: the stored credential, model and base URL become those of the
   request, an omitted model or base URL becomes null, the row keeps its id
   and created_at, no other row changes, and the response is built from the
   row as written. *)
C17_UpsertOverwrites ==
    [][ \A i \in DOMAIN calls :
          (/\ WriteStep(i)
           /\ calls[i].existing.some
           /\ \E r \in app_state.ai_configs : r.id = calls[i].existing.v[1].id)
          => LET c   == calls[i]
                 old == CHOOSE r \in app_state.ai_configs :
                            r.id = c.existing.v[1].id
                 new == [id |-> old.id, provider_name |-> old.provider_name,
                         api_key_encrypted |-> c.api_key_encrypted,
                         model |-> c.data.model, base_url |-> c.data.base_url,
                         created_at |-> old.created_at, updated_at |-> c.now]
             IN  /\ calls'[i].err = ""
                 /\ app_state'.ai_configs
                      = (app_state.ai_configs \ {old}) \cup {new}
                 /\ calls'[i].response.some
                 /\ calls'[i].response.v[1].id = old.id
                 /\ calls'[i].response.v[1].model = c.data.model
                 /\ calls'[i].response.v[1].base_url = c.data.base_url ]_vars

(* The config created with key k1 and model m1 at time 1 was overwritten at
   time 2 by a request with key k2, no model and base URL b1 *)
C17_Witness ==
    /\ Len(calls) >= 2
    /\ calls[1].pc = "done" /\ calls[2].pc = "done"
    /\ calls[2].existing.some
    /\ calls[2].err = ""
    /\ app_state.ai_configs =
          { [id |-> "u1", provider_name |-> "openai",
             api_key_encrypted |-> encrypt("k2", 2),
             model |-> None, base_url |-> "b1",
             created_at |-> 1, updated_at |-> 2] }

(* C18: in every reachable state, under any interleaving of concurrent
   create/upsert and delete requests for AI provider configs, at most one
   config is stored per provider name. *)
C18_OneConfigPerProvider ==
    \A r1, r2 \in app_state.ai_configs :
        r1.provider_name = r2.provider_name => r1 = r2

(* Two creates for one provider both found no config; one inserted and the
   other failed on the unique constraint *)
C18_Witness ==
    /\ Len(calls) >= 2
    /\ calls[1].data.provider_name = "openai"
    /\ calls[2].data.provider_name = "openai"
    /\ ~calls[1].existing.some /\ ~calls[2].existing.some
    /\ calls[1].pc = "done" /\ calls[2].pc = "done"
    /\ calls[1].err = "Database" /\ calls[2].err = ""
    /\ Cardinality(app_state.ai_configs) = 1

(* The encrypted blobs a config can hold *)
Blobs == { encrypt(k, n) : k \in {"k1", "k2", "not-needed"}, n \in 1 .. MaxCalls }

(* The response is what any config differing from this one only in its
   credential gives, and carries the five response fields only *)
CredentialFree(config, response) ==
    /\ DOMAIN response = {"id", "provider_name", "model", "base_url", "has_key"}
    /\ response.has_key = TRUE
    /\ \A b \in Blobs :
          ToResponse([config EXCEPT !.api_key_encrypted = b]) = response

(* C19: every response of list_ai_configs and of create_ai_config is the
   response of every config that differs from the listed or written one only
   in its credential; it has the fields id, provider_name, model, base_url
   and has_key and no other, and has_key is true. *)
C19_ResponsesHideCredential ==
    /\ \A i \in DOMAIN calls :
          calls[i].response.some
          => CredentialFree(calls[i].config.v[1], calls[i].response.v[1])
    /\ db_call.op = "list_ai_provider_configs"
       => \A k \in DOMAIN db_call.val.rows :
             CredentialFree(db_call.val.rows[k], db_call.val.responses[k])

(* A create has answered, and a listing shows a config stored without a key
   of its own and a config stored with the key k1 *)
C19_Witness ==
    /\ \E i \in DOMAIN calls : calls[i].response.some
    /\ db_call.op = "list_ai_provider_configs"
    /\ Len(db_call.val.rows) = 2
    /\ db_call.val.rows[1].api_key_encrypted.sealed = "not-needed"
    /\ db_call.val.rows[2].api_key_encrypted.sealed = "k1"

(* A delete of media through the REST handler or through the MCP tool *)
MediaDeleteStep == DbStep("delete_media") \/ DbStep("tool_delete_media")

(* C20: a delete of a media id that has a record answers success, removes
   that record and no other, and leaves every file but the record's in place;
   the record's file is gone afterwards when it existed and the removal
   succeeded, and stays when the removal failed. A delete of an id with no
   record answers not-found and changes neither the records nor the files. *)
C20_DeleteMediaBestEffort ==
    [][ MediaDeleteStep
        => LET id  == db_call'.arg
               env == db_call'.val.env
           IN  IF id \in DOMAIN app_state.media
               THEN LET filename == app_state.media[id].filename IN
                    /\ db_call'.err = ""
                    /\ app_state'.media = Without(app_state.media, id)
                    /\ app_state.files \ {filename} \subseteq app_state'.files
                    /\ app_state'.files \subseteq app_state.files
                    /\ filename \in app_state'.files
                          <=> (filename \in app_state.files /\ ~env.write_ok)
               ELSE /\ db_call'.err \in {"NotFound", "Media not found"}
                    /\ app_state'.media = app_state.media
                    /\ app_state'.files = app_state.files ]_vars

(* A delete answered success although the removal of the file failed: the
   record is gone and the file is still there *)
C20_Witness ==
    /\ db_call.op = "delete_media"
    /\ db_call.arg = "u2"
    /\ db_call.err = ""
    /\ ~db_call.val.env.write_ok
    /\ "u2" \notin DOMAIN app_state.media
    /\ <<"u1", "png">> \in app_state.files

(* A delete through the tool answered success for a record whose file was
   already missing, while another record and its file are stored *)
C20_WitnessFileMissing ==
    /\ db_call.op = "tool_delete_media"
    /\ db_call.arg = "u2"
    /\ db_call.err = ""
    /\ "u2" \notin DOMAIN app_state.media
    /\ "u4" \in DOMAIN app_state.media
    /\ app_state.files = {<<"u3", "png">>}

(* A delete of an id without a record answered not-found while a record and
   its file are stored *)
C20_WitnessNotFound ==
    /\ db_call.op = "delete_media"
    /\ db_call.arg = "zz"
    /\ db_call.err = "NotFound"
    /\ app_state.media # EmptyFn
    /\ app_state.files # {}

(* C21: every decrypt of what encrypt returned for a string, under the same
   key, succeeds and returns that string, for every nonce encrypt drew; two
   nonces give two different encrypted texts. *)
C21_RoundTrip ==
    db_call.op = "decrypt"
    => /\ db_call.val.decrypted = ROk(db_call.val.plaintext)
       /\ \A nonce_bytes \in Nonces \ {db_call.val.nonce} :
             encrypt_string(db_call.val.plaintext, nonce_bytes,
                            db_call.val.key_env) # db_call.val.encrypted

(* The string of an a, an accented e and a euro sign came back from decrypt
   under the default key *)
C21_Witness ==
    /\ db_call.op = "decrypt"
    /\ db_call.val.plaintext = <<97, 233, 8364>>
    /\ ~db_call.val.key_env.some
    /\ db_call.val.decrypted.err = ""

(* Call i runs process_request in this step *)
ProcessStep(i) == reqs[i].pc = "process" /\ reqs'[i].pc # "process"

(* The error of the storage operation the tool of a tools/call makes on
   storage st, "" when it succeeds or the tool makes none *)
StorageError(st, params) ==
    LET name == AsStr(params.name)
        id   == GetStr(params.arguments, "id")
    IN  CASE name \in {"get_presentation", "update_presentation", "add_slides"} ->
                get_presentation(st, id).err
          [] name = "delete_presentation" -> delete_presentation(st, id).err
          [] name = "delete_media" ->
                IF delete_media(st, id).val = None THEN "NotFound" ELSE ""
          [] name = "delete_layout_rule" -> delete_layout_rule(st, id).err
          [] name = "create_layout_rule" ->
                create_layout_rule(st, GetStr(params.arguments, "name"), 100,
                                   "{}", "{}").err
          [] OTHER -> ""

(* C22: a tools/call whose storage operation fails (a presentation, media or
   layout rule id that is not stored, a default layout rule to delete, a rule
   name in use) gets an error response with code -32000 and the id of the
   request; every error response of the dispatcher has one of the codes
   -32000, -32601 and -32602. *)
C22_StorageErrorsAreServerErrors ==
    [][ \A i \in DOMAIN reqs :
          ProcessStep(i)
          => /\ (/\ reqs[i].request.method = "tools/call"
                 /\ reqs'[i].ops >= 1
                 /\ StorageError(app_state, reqs[i].request.params) # "")
                => /\ reqs'[i].some
                   /\ reqs'[i].resp.is_error
                   /\ reqs'[i].resp.code = -32000
                   /\ reqs'[i].resp.id = reqs[i].request.id
             /\ reqs'[i].resp.is_error
                => reqs'[i].resp.code \in {-32000, -32601, -32602} ]_vars

(* The delete of a default layout rule was refused with -32000 and the
   response, carrying the id 7, was queued *)
C22_Witness ==
    \E i \in DOMAIN reqs :
        /\ AsStr(reqs[i].request.params.name) = "delete_layout_rule"
        /\ GetStr(reqs[i].request.params.arguments, "id") = "r2"
        /\ reqs[i].resp.code = -32000
        /\ reqs[i].resp.id = "7"
        /\ reqs[i].sent = 1

(* A get of a presentation that is not stored and a delete of a media item
   that is not stored were both answered with -32000 *)
C22_WitnessNotFound ==
    /\ Len(reqs) = 2
    /\ AsStr(reqs[1].request.params.name) = "get_presentation"
    /\ AsStr(reqs[2].request.params.name) = "delete_media"
    /\ reqs[1].resp.code = -32000
    /\ reqs[2].resp.code = -32000

(* Call i runs its UPDATE in this step *)
UpdateWriteStep(i) == calls[i].pc = "write" /\ calls'[i].pc = "read"

(* C23: the UPDATE of an update_presentation call leaves every field the
   request omits as it is stored when the UPDATE runs, whatever other calls
   ran since the call read the row. *)
C23_OmittedFieldsKept ==
    [][ \A i \in DOMAIN calls :
          (UpdateWriteStep(i) /\ calls[i].op = "update_presentation"
           /\ calls[i].id \in DOMAIN app_state.presentations)
          => LET old == app_state.presentations[calls[i].id]
                 new == app_state'.presentations[calls[i].id]
             IN  /\ ~calls[i].data.title.some => new.title = old.title
                 /\ ~calls[i].data.content.some => new.content = old.content
                 /\ ~calls[i].data.theme.some => new.theme = old.theme ]_vars

(* The content holds the slide text right after a separator *)
HasSlides(content, slides) ==
    \E k \in 1 .. Len(content) - 1 :
        content[k] = "---" /\ content[k + 1] = slides

(* C24: when two add_slides calls on one presentation have both completed
   without an error, the stored content holds the slide text of each after a
   separator. *)
C24_NoSlidesLost ==
    \A i, j \in DOMAIN calls :
        (/\ i # j
         /\ calls[i].op = "add_slides" /\ calls[j].op = "add_slides"
         /\ calls[i].id = calls[j].id
         /\ calls[i].pc = "done" /\ calls[j].pc = "done"
         /\ calls[i].err = "" /\ calls[j].err = ""
         /\ calls[i].id \in DOMAIN app_state.presentations)
        => /\ HasSlides(app_state.presentations[calls[i].id].content, calls[i].slides)
           /\ HasSlides(app_state.presentations[calls[i].id].content, calls[j].slides)

(* C25: a submit that has returned a status other than ACCEPTED has left
   storage as it was when its request was processed. *)
C25_FailedSubmitLeavesStorage ==
    \A i \in DOMAIN reqs :
        (reqs[i].pc = "done" /\ reqs[i].status # "ACCEPTED") => ~reqs[i].changed

(* C26: a submit with token T holds the Sender of the channel sse_handler
   created for T, and its response is queued on that channel alone; each
   message a stream emits is the head of its own session's queue, and no
   other session's queue or stream changes in that step; an opened session
   leaves every other registry entry as it was. *)
C26_NoCrossSessionDelivery ==
    /\ [](\A i \in DOMAIN reqs :
            reqs[i].sender # None => reqs[i].sender = reqs[i].token)
    /\ [][ /\ \A i \in DOMAIN reqs :
                SendStep(i)
                => /\ \A t \in Tokens \ {reqs[i].token} : queue'[t] = queue[t]
                   /\ reqs'[i].status = "ACCEPTED"
                      => queue'[reqs[i].token]
                            = Append(queue[reqs[i].token], Serialize(reqs[i].resp))
           /\ \A t \in Tokens :
                (/\ Len(out'[t]) = Len(out[t]) + 1
                 /\ out'[t][Len(out'[t])].event = "message")
                => /\ queue[t] # <<>>
                   /\ out'[t][Len(out'[t])].msg = Head(queue[t])
                   /\ \A u \in Tokens \ {t} : out'[u] = out[u] /\ queue'[u] = queue[u]
           /\ \A t \in Tokens :
                (t \notin DOMAIN sessions /\ t \in DOMAIN sessions')
                => \A k \in DOMAIN sessions :
                      k \in DOMAIN sessions' /\ sessions'[k] = sessions[k] ]_vars

(* Two sessions are registered; the first stream has emitted the result of
   an initialize submitted with its token and the second the error of a
   resources/list submitted with its token, and nothing else *)
C26_Witness ==
    /\ DOMAIN sessions = {"t1", "t2"}
    /\ Len(reqs) = 2
    /\ reqs[1].token = "t1" /\ reqs[1].request.method = "initialize"
    /\ reqs[2].token = "t2" /\ reqs[2].request.method = "resources/list"
    /\ Len(out["t1"]) = 2 /\ Len(out["t2"]) = 2
    /\ out["t1"][2].msg = Serialize(reqs[1].resp)
    /\ out["t2"][2].msg = Serialize(reqs[2].resp)
    /\ "error" \in DOMAIN out["t2"][2].msg
    /\ "result" \in DOMAIN out["t1"][2].msg

(* C27: no queue ever holds more than 100 messages; a send returns ACCEPTED
   only by queueing its response where there was room and returns an error
   only when the receiver is gone, so a call whose queue is full and whose
   receiver is alive stays where it is, its response neither dropped nor
   failed. *)
C27_BoundedBackPressure ==
    /\ [](\A t \in Tokens : Len(queue[t]) <= ChannelCapacity)
    /\ [][ \A i \in DOMAIN reqs :
             /\ SendStep(i)
                => LET ch == reqs[i].sender IN
                   \/ /\ reqs'[i].status = "ACCEPTED"
                      /\ Len(queue[ch]) < ChannelCapacity
                      /\ queue'[ch] = Append(queue[ch], Serialize(reqs[i].resp))
                   \/ /\ reqs'[i].status = "INTERNAL_SERVER_ERROR"
                      /\ ReceiverDropped(ch)
             /\ WaitsForRoom(i) => reqs'[i] = reqs[i] ]_vars

(* The queue holds 100 messages, the stream is open, and the call that has
   its response ready waits *)
C27_Witness ==
    /\ stream[QueueToken] = "open"
    /\ Len(queue[QueueToken]) = ChannelCapacity
    /\ \E i \in DOMAIN reqs : WaitsForRoom(i)

(* A call that found the queue full was accepted after the stream took a
   message: 101 responses were queued in all *)
C27_WitnessResumed ==
    /\ Len(reqs) > ChannelCapacity
    /\ \A i \in DOMAIN reqs : reqs[i].status = "ACCEPTED"
    /\ Len(queue[QueueToken]) = ChannelCapacity

(* The tasks in an operation that may never return *)
Blocked(i) == calls[i].pc \in {"storage", "provider", "send"}

(* C28: whoever holds the session registry lock is at its map operation
   (insert, get or remove), never in a storage call, a download or a send;
   and every task that waits for the registry lock gets it, whatever other
   tasks are blocked for ever. *)
C28_RegistryLockScopedToMapOps ==
    /\ [](\A h \in locks.registry.held :
            calls[h.task].pc \in {"insert", "get", "remove"})
    /\ \A i \in 1 .. MaxCalls :
          (i \in DOMAIN calls /\ calls[i].pc = "lock_registry")
          ~> (i \in DOMAIN calls /\ calls[i].pc # "lock_registry")

(* While a submit on the first session is blocked, the second session was
   opened and registered *)
C28_Witness ==
    /\ Len(calls) = 3
    /\ calls[2].op = "message_handler" /\ calls[2].token = "t1"
    /\ Blocked(2)
    /\ calls[3].op = "sse_handler" /\ calls[3].token = "t2"
    /\ calls[3].pc = "done"
    /\ DOMAIN sessions = {"t1", "t2"}

(* C29: the state lock is requested and held in read mode only and is not
   held by a task that is in the provider call; every task that waits for the
   state lock gets it, whatever provider calls never return. *)
C29_StateLockNeverBlocks ==
    /\ [](/\ \A h \in locks.state.held :
               h.mode = "read" /\ calls[h.task].pc # "provider"
          /\ \A k \in DOMAIN locks.state.waiting :
               locks.state.waiting[k].mode = "read")
    /\ \A i \in 1 .. MaxCalls :
          (i \in DOMAIN calls /\ calls[i].pc = "lock_state")
          ~> (i \in DOMAIN calls /\ calls[i].pc # "lock_state")

(* The AI request is in its provider call, and the create of a config that
   arrived after it has completed *)
C29_Witness ==
    /\ Len(calls) = 3
    /\ calls[1].op = "create_ai_config" /\ calls[1].pc = "done"
    /\ calls[2].op = "ai_generate" /\ calls[2].pc = "provider"
    /\ calls[3].op = "create_ai_config" /\ calls[3].pc = "done"
    /\ calls[3].existing.some

DefaultRules == { r \in app_state.layout_rules : r.is_default }

(* The summary selects the rule in every listing of the default rules *)
FirstMatchOf(summary, r) ==
    \A listing \in OrderByPriority(DefaultRules) :
        SelectRule(listing, summary) = Some(r)

(* C30: the six seeded rules are stored with the pairwise distinct priorities
   10, 20, 30, 40, 45 and 50; each of them is the first match, in ascending
   priority, for some slide summary; and a listing of the seeded rules alone
   selects image-text for a summary with a heading, exactly one image, no
   cards and the media before the text. *)
C30_NoSeededRuleShadowed ==
    /\ Cardinality(DefaultRules) = 6
    /\ { r.priority : r \in DefaultRules } = {10, 20, 30, 40, 45, 50}
    /\ \A r \in DefaultRules : \E summary \in Summaries : FirstMatchOf(summary, r)
    /\ (/\ db_call.op = "select_layout"
        /\ Range(db_call.val.listing) = DefaultRules
        /\ db_call.val.summary.hasHeading
        /\ db_call.val.summary.imageCount = 1
        /\ ~db_call.val.summary.hasCards
        /\ db_call.val.summary.mediaBeforeText)
       => /\ db_call.val.result.some
          /\ db_call.val.result.v[1].name = "image-text"
          /\ db_call.val.result.v[1].priority = 45

(* The seeded rules alone were listed for a slide with a heading, one image,
   no cards and the media first, and image-text was selected *)
C30_Witness ==
    /\ db_call.op = "select_layout"
    /\ Range(db_call.val.listing) = SeedLayoutRules
    /\ db_call.val.summary.hasHeading
    /\ db_call.val.summary.imageCount = 1
    /\ ~db_call.val.summary.hasCards
    /\ db_call.val.summary.mediaBeforeText
    /\ db_call.val.result.some
    /\ db_call.val.result.v[1].name = "image-text"

====
